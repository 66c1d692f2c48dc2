------------------------- MODULE MCValidationReport -------------------------
(* The report over four short fixtures and three directories of rules.     *)
EXTENDS ValidationReport, TLC

Step(conditions) == [event_type |-> "ProcessCreate", conditions |-> conditions]

\* samples/rules/lolbin_chain.yml
Lolbin ==
  [id |-> "chain_001",
   steps |-> <<Step("image_path" :> "powershell" @@ "command_line" :> "-enc"),
               Step("image_path" :> "rundll32"), Step("image_path" :> "wmiprvse")>>]

Shell == [id |-> "shell", steps |-> SubSeq(Lolbin.steps, 1, 1)]
NoSteps == [id |-> "hollow", steps |-> <<>>]

MCChains == <<Lolbin>>
MCHollowChains == <<Shell, NoSteps>>

MCWithin == {<<"powershell", Roles[2]>>, <<"-enc", Roles[2]>>,
             <<"rundll32", Roles[3]>>, <<"wmiprvse", Roles[4]>>}

Runs(pid, ppid, role) ==
  [event_type |-> "ProcessCreate", pid |-> pid, ppid |-> ppid,
   image_path |-> Roles[role], command_line |-> Roles[role], registry_key |-> None]

\* An attack with noise in between; noise; the beginning of a chain; and the
\* end of it without its beginning.
MCFixtures ==
  <<[expected |-> 1, events |-> <<Runs(2, 1, 2), Runs(5, 1, 1), Runs(3, 2, 3), Runs(4, 3, 4)>>],
    [expected |-> 0, events |-> <<Runs(2, 1, 1), Runs(3, 1, 3)>>],
    [expected |-> 0, events |-> <<Runs(2, 1, 2), Runs(3, 2, 3)>>],
    [expected |-> 0, events |-> <<Runs(3, 2, 3), Runs(4, 3, 4)>>]>>

MCEvents == UNION {Range(MCFixtures[f].events) : f \in DOMAIN MCFixtures} \cup Range(Stream)
============================================================================
