------------------------ MODULE MCCorrelationEngine ------------------------
(* CorrelationEngine over small chains and a handful of events.            *)
EXTENDS CorrelationEngine, TLC

Step(type, conditions) == [event_type |-> type, conditions |-> conditions]

\* Three steps, of two event types, after samples/rules/lolbin_chain.yml.
Lolbin ==
  [id |-> "lolbin",
   steps |-> <<Step("ProcessCreate", "image_path" :> "ps" @@ "command_line" :> "enc"),
               Step("ProcessCreate", "image_path" :> "rundll"),
               Step("RegistrySet", "registry_key" :> "run")>>]

\* A chain that shares its first step with Lolbin and tests nothing more.
Spawner ==
  [id |-> "spawner",
   steps |-> <<Step("ProcessCreate", "image_path" :> "ps"),
               Step("ProcessCreate", <<>>)>>]

SideLoad ==
  [id |-> "sideload", steps |-> <<Step("ImageLoad", "image_path" :> "evil")>>]

MCChains == <<Lolbin, Spawner, SideLoad>>

MCWithin == {<<"ps", "ps.exe">>, <<"enc", "ps -enc">>, <<"rundll", "rundll32.exe">>,
             <<"run", "software/run">>, <<"evil", "evil.dll">>}

Event(type, pid, ppid, image, cmd, key) ==
  [event_type |-> type, pid |-> pid, ppid |-> ppid, image_path |-> image,
   command_line |-> cmd, registry_key |-> key]

\* A process tree that may turn into a cycle, script blocks and registry
\* events without a parent, one registry event that brings its own, and
\* fields that are missing where a condition tests them.
MCEvents ==
  {Event("ProcessCreate", 3, None, "ps.exe", "ps -enc", None),
   Event("ProcessCreate", 2, 1, "ps.exe", None, None),
   Event("ProcessCreate", 2, 1, "rundll32.exe", None, None),
   Event("ProcessCreate", 1, 3, "cmd.exe", None, None),
   Event("ProcessCreate", 3, 2, "rundll32.exe", "ps -enc", None),
   Event("ProcessCreate", 1, 2, "cmd.exe", None, None),
   Event("RegistrySet", 3, None, "reg.exe", None, "software/run"),
   Event("RegistrySet", 2, None, "reg.exe", None, "other"),
   Event("RegistrySet", 3, 1, "reg.exe", None, None),
   Event("ImageLoad", 2, None, "evil.dll", None, None)}
============================================================================
