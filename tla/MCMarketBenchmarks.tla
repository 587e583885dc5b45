-------------------------- MODULE MCMarketBenchmarks --------------------------
(* Two ingestions and a lookup at once.  Two cohorts of five or six wages,   *)
(* with an outlier, an hourly wage and a row that cannot be read.              *)
EXTENDS MarketBenchmarks

CONSTANTS j1, j2, reader1

MCJob == {j1, j2}
MCReader == {reader1}

Developer == [ families |-> {}, levels |-> {1}, exact |-> 0 ]
SeniorML == [ families |-> {"MACHINE_LEARNING", "SYSTEMS_INFRASTRUCTURE"},
              levels |-> {1, 3}, exact |-> 0 ]

Developers == [ family |-> "SOFTWARE_ENGINEERING", level |-> 1, zone |-> "US_ZONE_1" ]
MLSeniors == [ family |-> "MACHINE_LEARNING", level |-> 3, zone |-> "US_ZONE_3" ]

Rows(title, places, date, wages) ==
  [ i \in DOMAIN wages |-> [ title |-> title, places |-> places, amount |-> 1000 * wages[i],
                             unit |-> "YEAR", date |-> date ] ]

Dev(date, wages) == Rows(Developer, {1, 2}, date, wages)
ML(date, wages) == Rows(SeniorML, {}, date, wages)

Hourly(row, rate) == [row EXCEPT !.amount = rate, !.unit = "HOUR"]

\* One hour at $300 is $624,000 a year.
Outlier == << Hourly(Dev(1, <<0>>)[1], 300) >>

MCFeeds ==
  { ML(0, <<240, 250, 260, 270, 280>>) \o Dev(0, <<140, 150, 160, 170, 180>>),
    Dev(0, <<145, 155, 0, 160, 172, 181>>) \o ML(0, <<262, 245, 280, 290, 39, 270>>) }

MCBundled == Dev(1, <<150, 150, 152, 150>>) \o Outlier

MCSeeded == << Developers, MLSeniors >>
\* Nothing, or an ingestion that has a row of each cohort.
MCEarlier == { <<>>, Benchmarks(Parsed(Dev(0, <<140, 150, 160, 172, 181>>) \o ML(0, <<240, 250, 260, 270, 281>>))) }
MCBreaks == {3}
MCLimits == {10}
MCCacheKey ==
  { <<"benchmark", Developers, "DEFAULT">>, <<"benchmark", Developers, "DOL_OFLC">> }
==============================================================================
