---------------------------- MODULE MCPreflight ----------------------------
(* The instance of Preflight that TLC checks: SEC's two lookups and the    *)
(* document they lead to, a dated text file of two sessions with a binary  *)
(* one, and the endpoints of a metered provider beside a manual source.    *)
EXTENDS Preflight

\* The providers' plan: two requests, of which a routine run wants one.
MCEndpoint == {"tickers", "submissions", "document", "volumes", "sheet",
               "quotes", "history", "filings", "capture"}
MCOrders == {<<"tickers", "submissions", "document">>, <<"volumes", "sheet">>,
             <<"history", "quotes", "filings", "capture">>}

Http == [kind |-> "http", enabled |-> TRUE, deep |-> FALSE, credential |-> "none",
         symbol |-> TRUE, required |-> TRUE, format |-> "json", paths |-> {},
         needs |-> "none", sessions |-> 1, suffix |-> "xlsx",
         shared |-> TRUE, asked |-> {}]

\* The clients know a document under another name and do not read the sheet;
\* of the history they ask less than the registry.
MCRegistry ==
  [e \in MCEndpoint |->
    CASE e = "submissions" ->
           [Http EXCEPT !.needs = "cik", !.paths = {"list"}, !.asked = {"list"}]
      [] e = "document" ->
           [Http EXCEPT !.needs = "filing", !.format = "text", !.shared = FALSE]
      [] e = "volumes" -> [Http EXCEPT !.format = "text", !.sessions = 2]
      [] e = "sheet" ->
           [Http EXCEPT !.format = "binary", !.required = FALSE, !.shared = FALSE]
      [] e = "quotes" ->
           [Http EXCEPT !.credential = "held", !.paths = {"list"}, !.asked = {"list"}]
      [] e = "history" ->
           [Http EXCEPT !.credential = "held", !.deep = TRUE, !.paths = {"list"}]
      [] e = "filings" -> [Http EXCEPT !.credential = "lacking"]
      [] e = "capture" -> [Http EXCEPT !.kind = "manual_csv"]
      [] OTHER -> Http]

\* A map that names one filing or a later one, a map without what is looked
\* up, a spent quota said in JSON, a text, and a file.
MCBodies ==
  {[form |-> "object", says |-> "rows", holds |-> {"cik", "list", "one"}],
   [form |-> "object", says |-> "rows", holds |-> {"cik", "list", "later"}],
   [form |-> "object", says |-> "rows", holds |-> {}],
   [form |-> "object", says |-> "quota", holds |-> {}],
   [form |-> "text", says |-> "rows", holds |-> {}],
   [form |-> "binary", says |-> "document", holds |-> {}]}
=============================================================================
