------------------------------ MODULE Payloads ------------------------------
(***************************************************************************)
(* Whether a provider's answer is data: provider_validation.py of          *)
(* src/briefing_app.  Providers refuse with HTTP 200 as well, so the test  *)
(* of a body is the only guard of the raw cache and of every normalizer.   *)
(*                                                                         *)
(* A body is what these tests can tell of it: its form, what it says, and  *)
(* which of the paths an endpoint may require it holds.  The tests look at *)
(* what a body says in a fixed order; "says" is the first that finds it.   *)
(***************************************************************************)
CONSTANT Path   \* JSON paths the endpoints require

(* Wording, as is_quota_notice and the phrase lists read it: a spent quota *)
(* or rate, a plan that does not cover the call, any other complaint.      *)
Refusing == {"quota", "gate", "complaint"}

(* A JSON object or list may also hold impossible symbols or dates, or an  *)
(* options chain whose volumes are all alike; "root" is held by one that   *)
(* is not empty.  A scalar is any other JSON value.                        *)
JsonSays   == Refusing \union {"sentinel", "uniform", "rows"}
TextSays   == Refusing \union {"blank", "script", "degenerate", "rows"}
BinarySays == {"blank", "stub", "document"}

Body ==
  [form : {"object", "list"}, says : JsonSays, holds : SUBSET Path]
  \union [form : {"scalar"}, says : {"rows"}, holds : {{}}]
  \union [form : {"text"}, says : TextSays, holds : {{}}]
  \union [form : {"binary"}, says : BinarySays, holds : {{}}]

BadStatus == {"missing", "throttled", "paywalled", "malformed", "synthetic",
              "placeholder", "truncated"}
PayloadStatus == BadStatus \union {"ok"}

-----------------------------------------------------------------------------
(* validate_text_payload: a text is never data here; the quota wording is  *)
(* tested before the plan wording, which a spent quota may also use.       *)
TextStatus(body) ==
  CASE body.says = "blank"  -> "missing"
    [] body.says = "script" -> "placeholder"
    [] body.says = "quota"  -> "throttled"
    [] body.says = "gate"   -> "paywalled"
    [] OTHER                -> "malformed"

(* validate_text_data_payload, for feeds that are text: a complaint in     *)
(* other words passes for data; a refusal spread over the columns of a     *)
(* delimited file does not.                                                *)
TextDataStatus(body) ==
  IF body.says \in {"blank", "script", "quota", "gate"} THEN TextStatus(body)
  ELSE IF body.says = "degenerate" THEN "malformed" ELSE "ok"

(* _trap_key_result: a filled error key anywhere in the payload.  Alpha    *)
(* Vantage's demo answers make its other complaints synthetic.             *)
TrapStatus(body, alphaVantage) ==
  CASE body.says = "quota"     -> "throttled"
    [] body.says = "gate"      -> IF alphaVantage THEN "synthetic" ELSE "paywalled"
    [] body.says = "complaint" -> IF alphaVantage THEN "synthetic" ELSE "malformed"

(* validate_payload.                                                       *)
Validated(body, required, alphaVantage) ==
  CASE body.form = "text"                    -> TextStatus(body)
    [] body.form \notin {"object", "list"}   -> "malformed"
    [] body.says \in Refusing                -> TrapStatus(body, alphaVantage)
    [] body.says \in {"sentinel", "uniform"} -> "synthetic"
    [] ~(required \subseteq body.holds)      -> "missing"
    [] OTHER                                 -> "ok"

(* validate_binary_payload: a page instead of the file, or a file cut off. *)
BinaryStatus(body) ==
  CASE body.form = "binary" -> (CASE body.says = "blank" -> "missing"
                                  [] body.says = "stub"  -> "truncated"
                                  [] OTHER               -> "ok")
    [] body.form # "binary" /\ body.says \in {"script", "quota", "gate"}
                            -> TextStatus(body)
    [] OTHER                -> "malformed"
=============================================================================
