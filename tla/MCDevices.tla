----------------------------- MODULE MCDevices -----------------------------
(***************************************************************************)
(* The daemon with the enumerator of a `devctl trigger' process.  The two  *)
(* share nothing but the kernel, so the process runs while the daemon is   *)
(* at rest and the instance explores their behaviours one after the other. *)
(* The tree: a PCI device with a network interface, a sound card and, next *)
(* to it, a device-mapper disk; net, sound and block hold no uevent file.  *)
(***************************************************************************)
EXTENDS Devmaster, Enumerator

pci == <<"devices", "pci">>
eth == pci \o <<"net", "eth0">>
card == pci \o <<"sound", "card0">>
control == card \o <<"controlC0">>
pcm == card \o <<"pcm0">>
disk == <<"devices", "virtual", "block", "dm-0">>
jack == card \o <<"input5">>

MCHasUevent == {pci, eth, card, control, pcm, disk, jack}
MCDir == MCHasUevent \cup
    {Front(eth), Front(card), Front(disk), SubSeq(disk, 1, 2), <<"devices">>,
     <<"bus">>, <<"bus", "pci">>, <<"bus", "pci", "drivers">>, <<"bus", "pci", "drivers", "e1000">>,
     <<"bus", "pci", "drivers", "igb">>, <<"module">>, <<"module", "igb">>}
MCLink == [d \in MCHasUevent |-> CASE d = pci -> "pci" [] d = eth -> "net"
                                 [] d = disk -> "block" [] d = jack -> "input" [] OTHER -> "sound"]
MCBusDev == [b \in {"pci"} |-> {pci}]
MCClassDev == [c \in {"net", "sound", "input", "block"} |-> {d \in MCHasUevent : MCLink[d] = c}]

MCNames == <<"block", "bus", "card0", "controlC0", "devices", "dm-0", "drivers", "e1000",
             "eth0", "igb", "input5", "module", "net", "pci", "pcm0", "sound", "virtual">>
MCRank == [n \in Range(MCNames) |-> CHOOSE i \in DOMAIN MCNames : MCNames[i] = n]
MCSubPattern == {{"net"}, {"sound", "pci"}}
MCNamePattern == {{"eth0", "pci"}}
MCParentDir == {pci, card}

DevInit == DInit /\ ENInit

DevNext ==
    \/ e = new /\ DNext /\ UNCHANGED e
    \/ DInit /\ ENNext /\ UNCHANGED vars

DevSpec == DevInit /\ [][DevNext]_<<vars, e>> /\ DFairness
=============================================================================
