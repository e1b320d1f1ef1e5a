---------------------------- MODULE MCLivePulls ----------------------------
(***************************************************************************)
(* Configurations for model checking LivePulls: each asks a few legs of    *)
(* the chains of config.example.yaml and leaves the other chains empty.    *)
(***************************************************************************)
EXTENDS LivePulls

CONSTANTS k1, k2

MCProvider == {"cboe", "alpha_vantage", "fmp", "twelve_data", "finra", "fred",
               "finnhub", "apewisdom", "sec_edgar", "manual"}

Shipped == [options |-> <<"cboe", "alpha_vantage">>,
            prices |-> <<"fmp", "twelve_data", "alpha_vantage">>,
            short_interest |-> <<"finra">>, macro |-> <<"fred", "fmp">>,
            earnings |-> <<"fmp", "alpha_vantage">>,
            news |-> <<"finnhub", "alpha_vantage", "fmp">>,
            analyst |-> <<"fmp", "finnhub">>, political |-> <<"fmp">>,
            retail |-> <<"apewisdom">>,
            insider |-> <<"sec_edgar", "alpha_vantage", "fmp">>]

Only(names, options) ==
  [n \in ChainName |-> IF n = "options" THEN options
                       ELSE IF n \in names THEN Shipped[n] ELSE <<>>]

Run(names, options, unkeyed, funds, stored) ==
  [order |-> Only(names, options), keyed |-> MCProvider \ unkeyed,
   promoted |-> {k1}, accepted |-> <<k1, k2>>, warned |-> FALSE, funds |-> funds, stored |-> stored]

MCConfigs ==
  {[Run({"prices"}, Shipped.options, {"twelve_data"}, {}, FALSE)
      EXCEPT !.accepted = <<k1>>],
   Run({"short_interest", "earnings"}, <<"manual", "cboe">>, {}, {}, TRUE),
   Run({"macro"}, <<"cboe">>, {"fmp"}, {}, TRUE),
   Run({"macro"}, <<"cboe">>, {"fred"}, {}, TRUE),
   Run({"political", "retail"}, <<"cboe">>, {}, {}, TRUE),
   Run({"news", "analyst"}, <<"cboe">>, {"finnhub"}, {k2}, TRUE),
   Run({"insider"}, <<"cboe">>, {}, {}, TRUE),
   [Run({"retail"}, <<"cboe">>, {}, {}, TRUE) EXCEPT !.warned = TRUE],
   [Run({}, <<"cboe">>, {}, {}, TRUE) EXCEPT !.accepted = <<>>]}
=============================================================================
