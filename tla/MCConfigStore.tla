---------------------------- MODULE MCConfigStore ----------------------------
(* Values for the configuration store: two accounts, and controls posted by  *)
(* pages of today and of before bindings had ids and crons.                  *)
EXTENDS ConfigStore

Raw(id, account, strategy, cron, frequency) ==
  [id |-> id, account |-> account, enabled |-> TRUE, strategy |-> strategy,
   cron |-> cron, frequency |-> frequency]

Shipped == [trading |-> "paper",
            bindings |-> <<[Raw(2, "a1", "dca", "daily", "absent") EXCEPT !.enabled = FALSE],
                           [Raw(4, "a1", "rally", "daily", "absent") EXCEPT !.enabled = FALSE]>>]

Seed == [EmptyDocument EXCEPT !.broker  = [a \in {"a1", "a2"} |-> "alpaca"],
                              !.default = "a1", !.controls = Shipped,
                              !.tuning  = [k \in {"canonical"} |-> [horizonDays |-> 4, floor |-> Bad]]]

Legacy == [EmptyDocument EXCEPT !.broker = [a \in {"a1", "a2"} |-> "paper"],
                                !.tuning = [k \in {"retired"} |-> [bars |-> 65, sleeve |-> {}]]]

MCTunings == {[minutes |-> 975, grid |-> 30, minimum |-> Bad], [days |-> 2, minutes |-> 3900]}
MCUniverses == {{"s3"}}
MCKnobs == [horizon |-> [kind |-> "days", default |-> 12],
            floor   |-> [kind |-> "number", default |-> 5],
            on      |-> [kind |-> "flag", default |-> TRUE],
            sleeve  |-> [kind |-> "symbols", default |-> {"s1"}]]
MCDefaults == [buffer |-> 10, minimum |-> 1, order |-> <<"p1">>, symbols |-> {"s1", "s2"},
               tradable |-> {"s1", "s3"}]
MCEnv == [BROKER_KEY |-> "k0", SECOND |-> "k2", buffer |-> 20, KILL |-> None]
MCCredentials == [a1 |-> [key |-> [literal |-> "k1"]], a2 |-> [keyEnv |-> "SECOND", buffer |-> 5]]
MCSources == [market |-> <<>>, eod |-> <<"p2", "p1">>]

MCSeeds    == {Seed}
MCLegacies == {Legacy}

MCBodies ==
  {[trading |-> None, bindings |-> <<Raw(2, "a2", "dca", "daily", "absent"),
                                     Raw(2, None, "none", "unusable", "absent")>>],
   [trading |-> "a1", bindings |-> <<Raw(None, None, "dca", "absent", "mcp")>>]}
=============================================================================
