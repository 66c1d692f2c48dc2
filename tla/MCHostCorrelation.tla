------------------------- MODULE MCHostCorrelation -------------------------
(* HostCorrelation with two short chains and a few PIDs.                   *)
EXTENDS HostCorrelation, TLC

Step(type, conditions) == [event_type |-> type, conditions |-> conditions]

\* Two processes and an act of the second.
Lolbin ==
  [id |-> "lolbin",
   steps |-> <<Step("ProcessCreate", "image_path" :> "powershell" @@ "command_line" :> "enc"),
               Step("ProcessCreate", "image_path" :> "rundll"),
               Step("RegistrySet", "registry_key" :> "run")>>]

Pair == [id |-> "pair", steps |-> SubSeq(Lolbin.steps, 1, 2)]

MCChains == <<Lolbin, Pair>>
PairChains == <<Pair>>

\* The third command line is longer than its field.
MCWithin == {<<"powershell", "powershell.exe">>, <<"enc", "-enc">>, <<"enc", "-nop -enc">>,
             <<"rundll", "rundll32.exe">>, <<"run", "software/run">>}

ShortImages == {<<"powershell.exe", "-enc">>, <<"rundll32.exe", None>>}

MCImages == ShortImages \cup {<<"powershell.exe", "-nop -enc">>}

MCCut == "-nop -enc" :> "-nop"

MCTargets == {"software/run"}

MCEvents ==
  UNION ({CreateReports(CreateEvent(p, q, run)) : p, q \in Pids, run \in MCImages}
           \cup {LoadReports(LoadEvent(p, x)) : p \in Pids, x \in MCTargets}
           \cup {SetReports(SetEvent(p, x)) : p \in Pids, x \in MCTargets})
    \cup {ScriptEvent(p, run[2]) : p \in Pids, run \in MCImages}
============================================================================
