------------------------- MODULE MCSigmaGenerator --------------------------
(* SigmaGenerator over chains of every kind its code tells apart.           *)
EXTENDS SigmaGenerator, TLC

Step(type, conditions) == [event_type |-> type, conditions |-> conditions]

Chain(id, steps) == [id |-> id, steps |-> steps]

\* After samples/rules/lolbin_chain.yml, one step alone, a step of generic
\* values, no steps, a path, an anchored value, reshaped ones, a field without
\* a Sigma name, and two event types in one chain.
MCChains ==
  {Chain("lolbin", <<Step("ProcessCreate", "image_path" :> "powershell.exe" @@ "command_line" :> "-enc"),
                     Step("ProcessCreate", "image_path" :> "rundll32.exe")>>),
   Chain("loader", <<Step("ProcessCreate", "image_path" :> "rundll32.exe"
                                             @@ "command_line" :> "-nop -w hidden -enc")>>),
   Chain("generic", <<Step("ProcessCreate", "image_path" :> "powershell.exe")>>),
   Chain("neutral", <<Step("ProcessCreate", "command_line" :> "whoami")>>),
   Chain("hollow", <<>>),
   Chain("path", <<Step("ProcessCreate", "image_path" :> "tmp/evil.exe"),
                   Step("ProcessCreate", "image_path" :> "evil.exe")>>),
   Chain("anchored", <<Step("ProcessCreate", "command_line" :> "^whoami$")>>),
   Chain("reshaped", <<Step("ProcessCreate", "image_path" :> "//evil.exe" @@ "command_line" :> "-e*")>>),
   Chain("unmapped", <<Step("RegistrySet", "registry_key" :> "run" @@ "command_line" :> "-enc")>>),
   Chain("mixed", <<Step("ProcessCreate", "command_line" :> "-enc"),
                    Step("RegistrySet", "image_path" :> "powershell.exe")>>)}

MCSpecific == {"-enc", "-w hidden", "-nop", "rundll32.exe"}

MCGeneric == {"powershell.exe"}

MCWithin ==
  {<<x, x>> : x \in MCSpecific \cup MCGeneric \cup {"whoami", "run", "tmp/evil.exe", "evil.exe"}}
    \cup {<<x, "-nop -w hidden -enc">> : x \in {"-enc", "-w hidden", "-nop", "-nop -w hidden -enc"}}
    \cup {<<x, "c/tmp/evil.exe">> : x \in {"tmp/evil.exe", "evil.exe"}}
    \cup {<<x, "tmp/evil.exe.bak">> : x \in {"tmp/evil.exe", "evil.exe"}}
    \cup {<<"run", "software/run">>, <<"evil.exe", "tmp/evil.exe">>}

MCReshaped == {"//evil.exe", "-e*"}

MCContains == MCWithin \cup {<<"-e*", "-enc">>}

MCEndsWith == {<<"tmp/evil.exe", "c/tmp/evil.exe">>, <<"//evil.exe", "c/tmp/evil.exe">>}

MCExact == {<<"^whoami$", "whoami">>}

Images == {"powershell.exe", "rundll32.exe", "c/tmp/evil.exe", "tmp/evil.exe.bak"}

CommandLines == {"-enc", "-nop -w hidden -enc", "whoami"}

MCLogRecords ==
  {[event_type |-> "ProcessCreate", fields |-> f] :
     f \in {"image_path" :> x : x \in Images}
             \cup {"image_path" :> x @@ "command_line" :> y : x \in Images, y \in CommandLines}}
    \cup {[event_type |-> "RegistrySet",
           fields |-> "image_path" :> x @@ "registry_key" :> "software/run"] : x \in Images}
============================================================================
