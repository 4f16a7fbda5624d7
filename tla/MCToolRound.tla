---------------------------- MODULE MCToolRound ----------------------------
(* What two calls of one round ask in the runs of ToolRound.                *)
EXTENDS ToolRound

Ask(tool, named, finds) == [tool |-> tool, named |-> named, finds |-> finds, args |-> "good"]

\* Airports that have everything, that lack delay rows or filings, or are not in the data;
\* arguments a tool cannot take.
MCQuestions ==
  {Ask("rank_airports", FALSE, {"rank"}),
   [Ask("rank_airports", FALSE, {"rank"}) EXCEPT !.args = "malformed"],
   [Ask("resolve_airport", TRUE, {"resolve"}) EXCEPT !.args = "refused"],
   Ask("airport_metrics", TRUE, {}),
   Ask("compare_airports", FALSE, {"metrics"}),
   Ask("unmet_demand_estimate", FALSE, {"unmet", "metrics", "congestion"}),
   Ask("investment_context", TRUE, {"resolve", "concentration", "financials"}),
   Ask("faa_live_status", TRUE, {"resolve"}),
   Ask("unknown", FALSE, {})}
=============================================================================
