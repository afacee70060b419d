-------------------------- MODULE MCAgentProcess --------------------------
(***************************************************************************)
(* Instances of AgentProcess for TLC: fsc-agent, with its two watchers.     *)
(***************************************************************************)
EXTENDS AgentProcess, TLC

Item(r, names) == [resource |-> r, pfNames |-> names]

(* Two resources, one of them with two interfaces, in one entry or in two;  *)
(* then with other interfaces.                                              *)
Both == <<Item("intel/a", <<"eth1", "eth2">>), Item("intel/b", <<"eth3">>)>>
Swapped == <<Item("intel/a", <<"eth2">>), Item("intel/b", <<>>), Item("intel/a", <<"eth1">>)>>

AllConfigs == {Absent, Unparsable, Both, Swapped}
AllResources == {"intel/a", "intel/b"}
AllNames == {"eth1", "eth2", "eth3"}

OneAttachment == "ns/net" :> "intel/a"
TwoAttachments == "ns/net" :> "intel/a" @@ "ns/other" :> "intel/b"
=============================================================================
