---------------------------- MODULE Enumerator ----------------------------
(***************************************************************************)
(* libs/device: DeviceEnumerator, the iterator behind `devctl trigger'.    *)
(* It walks /sys, keeps the devices its match rules let through in a map,  *)
(* sorts them and yields them one by one.  A directory of /sys is the      *)
(* sequence of the names below /sys; a pattern is the set of the names it  *)
(* matches.  The order in which read_dir returns the entries of a          *)
(* directory is free.  Card numbers have one digit.                        *)
(***************************************************************************)
EXTENDS Integers, Sequences, FiniteSets, SequencesExt

CONSTANTS
    Dir,       \* the directories of /sys
    HasUevent,    \* those below /sys/devices that hold a uevent file
    Link,      \* directory -> what its `subsystem' link names
    BusDev,    \* bus -> the devices linked in /sys/bus/<bus>/devices
    ClassDev,  \* class -> the devices linked in /sys/class/<class>
    Rank,      \* the order of the names
    Late, Card, Control,        \* the names md*, dm-*; card*; controlC*
    SubPattern, NamePattern, ValuePattern, Prioritized, ParentDir, \* arguments of the calls
    MaxCalls,  \* calls that change the rules, in a process
    NoSub

VARIABLE e

ASSUME EnumeratorAssumption ==
    /\ HasUevent \subseteq Dir /\ DOMAIN Link \subseteq Dir /\ ParentDir \subseteq Dir
    /\ MaxCalls \in Nat

Etype == {"Devices", "Subsystems", "All"}

\* DeviceEnumerator::default(). `out' is what next has returned, `scans' counts the scans and
\* `calls' the calls that changed the rules; the other fields are the code's.
new == [etype |-> "Devices", map |-> {}, devices |-> <<>>, index |-> 0, up |-> FALSE,
        sorted |-> FALSE, prio |-> <<>>, sub |-> {}, nosub |-> {}, attr |-> FALSE,
        prop |-> {}, name |-> {}, noname |-> {}, tag |-> FALSE, parent |-> {},
        ph |-> "open", out |-> <<>>, scans |-> 0, calls |-> 0]

-----------------------------------------------------------------------------
\* Device: what a directory of /sys is as a device.

Name(d) == Last(d)

\* from_syspath: below /sys/devices a device has a uevent file, elsewhere any directory does.
from_syspath(d) == d # <<>> /\ (d[1] = "devices" => d \in HasUevent)

\* The directory above, where it is a device; the error of any other directory is
\* ENOENT, which ends the walk.
get_parent(d) == IF from_syspath(Front(d)) THEN {Front(d)} ELSE {}

\* The name before the first `drivers'.
set_drivers_subsystem(d) ==
    LET at == {i \in 2 .. Len(d) : d[i] = "drivers"} IN d[(CHOOSE i \in at : \A k \in at : i <= k) - 1]

get_subsystem(d) ==
    IF d \in DOMAIN Link THEN Link[d]
    ELSE CASE Len(d) = 1 -> NoSub
           [] Len(d) > 1 /\ d[1] = "module" -> "module"
           [] Len(d) > 1 /\ d[1] # "module" /\ "drivers" \in Range(d) -> set_drivers_subsystem(d)
           [] Len(d) > 1 /\ d[1] \in {"class", "bus"} /\ "drivers" \notin Range(d) -> "subsystem"
           [] OTHER -> NoSub

-----------------------------------------------------------------------------
\* The match rules.

\* A pattern is the set of the values it matches.  Left out: a glob that does not compile,
\* whose error ends scan_dir_and_add_devices early.
pattern_match(pattern, value) == value \in pattern

set_pattern_match(include, exclude, value) ==
    /\ \A p \in exclude : ~ pattern_match(p, value)
    /\ include = {} \/ \E p \in include : pattern_match(p, value)

match_subsystem(v, s) == set_pattern_match(v.sub, v.nosub, s)
match_sysname(v, n) == set_pattern_match(v.name, v.noname, n)

match_parent(v, d) == v.parent = {} \/ \E p \in v.parent : IsPrefix(p, d)

\* The uevent file is not read: DEVPATH and SUBSYSTEM are the only properties of a device
\* here. A rule is a key and a pattern for its value.
match_property(v, d) ==
    v.prop = {} \/ \E r \in v.prop : r[1] = "SUBSYSTEM" /\ get_subsystem(d) \in r[2]

\* test_matches; tags and the initialized state match always. The rules of sysattrs come
\* last and are todo!().
test_matches(v, d, flags) ==
    /\ "SYSNAME" \in flags => match_sysname(v, Name(d))
    /\ "SUBSYSTEM" \in flags => get_subsystem(d) # NoSub /\ match_subsystem(v, get_subsystem(d))
    /\ "PARENT" \in flags => match_parent(v, d)
    /\ match_property(v, d)

ALL == {"SYSNAME", "SUBSYSTEM", "PARENT"}

Panic(v) == [v EXCEPT !.ph = "panic"]

-----------------------------------------------------------------------------
\* The scan. `err' is the error a scan goes on after and returns in the end.

\* HashMap::insert returns the old value: the list is marked unsorted, and true is
\* returned, for a device that was there already.
add_device(v, d) ==
    [v EXCEPT !.map = @ \cup {d}, !.sorted = @ /\ d \notin v.map]

\* Mutant: the parents are entered without a test.
add_parent_devices_untested(v, d) ==
    [v EXCEPT !.map = @ \cup UNION {get_parent(SubSeq(d, 1, i)) : i \in DOMAIN d}]

\* The parents, until a matching one is new to the map: add_device for each.
add_parent_devices(v, d) ==
    LET up == {i \in 1 .. Len(d) - 1 : \A k \in i + 1 .. Len(d) : get_parent(SubSeq(d, 1, k)) # {}}
        match == {i \in up : test_matches(v, SubSeq(d, 1, i), ALL)}
        fresh == {i \in match : SubSeq(d, 1, i) \notin v.map}
        walked == {i \in match : \A k \in fresh : k <= i}
        added == {SubSeq(d, 1, i) : i \in walked} IN
    [v EXCEPT !.map = @ \cup added, !.sorted = @ /\ added \cap v.map = {}]

\* An entry that matches, with its parents.
scan_entry(v, d) ==
    IF v.ph = "panic" \/ ~ match_sysname(v, Name(d)) THEN v
    ELSE IF ~ from_syspath(d) THEN [v EXCEPT !.ph = "err"]
    ELSE IF ~ test_matches(v, d, ALL \ {"SYSNAME"}) THEN v
    ELSE IF v.attr THEN Panic(v)
    ELSE add_parent_devices(add_device(v, d), d)

\* The entries one after the other.
scan_entries(v, s) ==
    LET scanned[k \in 0 .. Len(s)] == IF k = 0 THEN v ELSE scan_entry(scanned[k - 1], s[k]) IN
    scanned[Len(s)]

\* The orders in which the directories of D, and in each its entries E[d], can be read.
Reads(D, E) ==
    {FlattenSeq([i \in DOMAIN o |-> f[o[i]]]) :
        o \in SetToSeqs(D),
        f \in {g \in [D -> UNION {SetToSeqs(E[x]) : x \in D}] : \A x \in D : g[x] \in SetToSeqs(E[x])}}

scan_dir_and_add_devices(V, E) ==
    {scan_entries(v, s) : v \in V, s \in SetToSeqs(E)}

\* The entries of a bus or class directory, in the subsystems that match: the given one, or the
\* name of each subdirectory.
scan_dir(V, E, subsystem) ==
    LET named(x) == IF subsystem = NoSub THEN x ELSE subsystem IN
    UNION {{scan_entries(v, s) :
              s \in Reads({x \in DOMAIN E : match_subsystem(v, named(x))}, E)} : v \in V}

scan_devices_all(V) == scan_dir(scan_dir(V, BusDev, NoSub), ClassDev, NoSub)

Below(p) == {d \in Dir : Len(d) = Len(p) + 1 /\ IsPrefix(p, d)}
BusDriver == [b \in DOMAIN BusDev |-> Below(<<"bus", b, "drivers">>)]

scan_subsystems_all(V) ==
    LET module(W)  == UNION {IF match_subsystem(v, "module")
                             THEN scan_dir_and_add_devices({v}, Below(<<"module">>)) ELSE {v} : v \in W}
        bus(W)     == UNION {IF match_subsystem(v, "subsystem")
                             THEN scan_dir_and_add_devices({v}, Below(<<"bus">>)) ELSE {v} : v \in W}
        driver(W)  == UNION {IF match_subsystem(v, "drivers")
                             THEN scan_dir({v}, BusDriver, "drivers") ELSE {v} : v \in W} IN
    driver(bus(module(V)))

\* The directories at and below the parents with a name that matches, however they are crawled.
parent_crawl_children(v) ==
    {d \in Dir : match_sysname(v, Name(d)) /\ \E p \in v.parent : IsPrefix(p, d)}

parent_add_child(v, d) == from_syspath(d) /\ test_matches(v, d, ALL \ {"PARENT"})

\* A directory that is no device fails the scan, which goes on. One below two of the parents
\* is entered twice.
scan_devices_children(v) ==
    LET seen == parent_crawl_children(v)
        found == {d \in seen : parent_add_child(v, d)}
        twice == {d \in found : \E p, q \in v.parent : p # q /\ IsPrefix(p, d) /\ IsPrefix(q, d)} IN
    IF v.attr /\ found # {} THEN Panic(v)
    ELSE [v EXCEPT !.map = found, !.sorted = @ /\ twice = {},
                   !.ph = IF \A d \in seen : from_syspath(d) THEN @ ELSE "err"]

Cleared(v) == [v EXCEPT !.map = {}, !.devices = <<>>, !.out = <<>>, !.scans = @ + 1]

scan_devices(v) ==
    {[x EXCEPT !.up = TRUE, !.etype = "Devices"] :
        x \in IF v.tag THEN {Panic(v)}
              ELSE IF v.parent # {} THEN {scan_devices_children(Cleared(v))}
              ELSE scan_devices_all({Cleared(v)})}

scan_subsystems(v) ==
    {[x EXCEPT !.up = TRUE, !.etype = "Subsystems"] : x \in scan_subsystems_all({Cleared(v)})}

scan_devices_and_subsystems(v) ==
    {[x EXCEPT !.up = TRUE, !.etype = "All"] :
        x \in IF v.tag THEN {Panic(v)}
              ELSE IF v.parent # {} THEN {scan_devices_children(Cleared(v))}
              ELSE scan_subsystems_all(scan_devices_all({Cleared(v)}))}

scan(v) ==
    CASE v.etype = "Devices" -> scan_devices(v)
      [] v.etype = "Subsystems" -> scan_subsystems(v)
      [] v.etype = "All" -> scan_devices_and_subsystems(v)

-----------------------------------------------------------------------------
\* The order of the list.

\* What follows the directory above `sound': the prefix is cut too short by the length
\* of "/sound/card", so that everything below that directory is compared.
sound_device_compare(a, b) ==
    LET at == {i \in 1 .. Len(a) - 2 : a[i] = "sound" /\ a[i + 1] \in Card}
        k == CHOOSE i \in at : \A j \in at : i <= j
        control(p) == \E i \in k + 1 .. Len(p) : p[i] \in Control IN
    IF at = {} \/ Len(b) < k \/ SubSeq(a, 1, k - 1) # SubSeq(b, 1, k - 1) \/ control(a) = control(b)
    THEN "Equal"
    ELSE IF control(a) THEN "Greater" ELSE "Less"

devpath_is_late_block(d) == \E i \in 2 .. Len(d) : d[i - 1] = "block" /\ d[i] \in Late

PathLess(a, b) ==
    \/ a # b /\ IsPrefix(a, b)
    \/ \E i \in DOMAIN a \cap DOMAIN b :
          SubSeq(a, 1, i - 1) = SubSeq(b, 1, i - 1) /\ Rank[a[i]] < Rank[b[i]]

\* a comes before b.
device_compare(a, b) ==
    \/ sound_device_compare(a, b) = "Less"
    \/ /\ sound_device_compare(a, b) = "Equal"
       /\ \/ ~ devpath_is_late_block(a) /\ devpath_is_late_block(b)
          \/ devpath_is_late_block(a) = devpath_is_late_block(b) /\ PathLess(a, b)

Consistent(S) ==
    /\ \A a, b \in S : a # b => (device_compare(a, b) <=> ~ device_compare(b, a))
    /\ \A a, b, c \in S : device_compare(a, b) /\ device_compare(b, c) => device_compare(a, c)

\* sort_by with a comparison that is no order leaves the elements in an order of its own.
sort_by(S) ==
    IF Consistent(S)
    THEN {[i \in 1 .. Cardinality(S) |->
             CHOOSE a \in S : Cardinality({b \in S : device_compare(b, a)}) = i - 1]}
    ELSE SetToSeqs(S)

\* Mutant: the ancestors of a prioritized device are left behind.
prioritized_alone(map, subsystem) == {d \in map : get_subsystem(d) = subsystem}

\* The devices of a prioritized subsystem, each with the ancestors that are in the map one above
\* the other.
prioritized(map, subsystem) ==
    LET own_dev == {d \in map : get_subsystem(d) = subsystem}
        above(d) == {SubSeq(d, 1, i) : i \in {j \in 1 .. Len(d) - 1 :
                        \A k \in j .. Len(d) - 1 : SubSeq(d, 1, k) \in map}} IN
    own_dev \cup UNION {above(d) : d \in own_dev}

\* The prioritized subsystems in turn, then the rest, each part sorted.
sort_devices(v) ==
    LET part[i \in 0 .. Len(v.prio)] ==
          IF i = 0 THEN {} ELSE part[i - 1] \cup prioritized(v.map \ part[i - 1], v.prio[i])
        parts == [i \in 1 .. Len(v.prio) + 1 |->
                    IF i > Len(v.prio) THEN v.map \ part[Len(v.prio)] ELSE part[i] \ part[i - 1]]
        sorts == {f \in [DOMAIN parts -> UNION {sort_by(parts[i]) : i \in DOMAIN parts}] :
                    \A i \in DOMAIN parts : f[i] \in sort_by(parts[i])} IN
    {[v EXCEPT !.devices = FlattenSeq(f), !.sorted = TRUE, !.index = 0] : f \in sorts}

\* What the kernel promises of /sys: the directories above a directory are there, what a bus or
\* a class links is a device of that subsystem; a device whose name is that of a control device
\* is right below its card, nothing below it is a device, and no disk is below a card.
ASSUME SysfsAssumption ==
    /\ IsFiniteSet(Dir) /\ IsFiniteSet(DOMAIN BusDev) /\ IsFiniteSet(DOMAIN ClassDev)
    /\ \A n \in DOMAIN Rank : Rank[n] \in Nat
    /\ \A d \in Dir : d # <<>> /\ d \in Seq(DOMAIN Rank)
    /\ \A d \in Dir : \A i \in 1 .. Len(d) - 1 : SubSeq(d, 1, i) \in Dir
    /\ \A b \in DOMAIN BusDev : \A d \in BusDev[b] : d \in Dir /\ from_syspath(d) /\ get_subsystem(d) = b
    /\ \A c \in DOMAIN ClassDev : \A d \in ClassDev[c] : d \in Dir /\ from_syspath(d) /\ get_subsystem(d) = c
    /\ \A d \in Dir : from_syspath(d) =>
          /\ \A i \in 1 .. Len(d) : d[i] \in Control =>
                i = Len(d) /\ i > 2 /\ d[i - 2] = "sound" /\ d[i - 1] \in Card
          /\ \A i \in 1 .. Len(d) - 2 : d[i] = "sound" /\ d[i + 1] \in Card => ~ devpath_is_late_block(d)

-----------------------------------------------------------------------------
\* The calls of the process that enumerates.

\* Rules are added before an enumeration or after its end.
Calls == (e.out = <<>> \/ e.ph = "end") /\ e.ph # "panic" /\ e.calls < MaxCalls

Rule(v) == e' = [v EXCEPT !.up = FALSE, !.ph = "open", !.calls = @ + 1]

set_enumerator_type ==
    /\ Calls
    /\ \E t \in Etype \ {e.etype} : Rule([e EXCEPT !.etype = t])

add_prioritized_subsystem ==
    Calls /\ \E s \in Prioritized : Rule([e EXCEPT !.prio = Append(@, s)])

add_match_subsystem ==
    /\ Calls
    /\ \E p \in SubPattern :
         Rule([e EXCEPT !.sub = @ \cup {p}]) \/ Rule([e EXCEPT !.nosub = @ \cup {p}])

add_match_sysname ==
    /\ Calls
    /\ \E p \in NamePattern :
         Rule([e EXCEPT !.name = @ \cup {p}]) \/ Rule([e EXCEPT !.noname = @ \cup {p}])

add_match_sysattr == Calls /\ Rule([e EXCEPT !.attr = TRUE])
add_match_tag == Calls /\ Rule([e EXCEPT !.tag = TRUE])

\* One pattern per property.
add_match_property ==
    /\ Calls
    /\ \E k \in {"SUBSYSTEM", "ID_PATH"}, p \in ValuePattern :
         Rule([e EXCEPT !.prop = {r \in @ : r[1] # k} \cup {<<k, p>>}])

add_match_parent ==
    /\ Calls
    /\ \E d \in ParentDir, keep \in BOOLEAN :
         Rule([e EXCEPT !.parent = {d} \cup IF keep THEN @ ELSE {}])

\* allow_uninitialized, add_match_is_initialized: the rule itself is not looked at.
add_match_is_initialized == Calls /\ Rule(e)

\* Iterator::next: a scan that failed anywhere ends the iteration; the next call goes on
\* with what the scan has found.
next ==
    /\ e.ph \notin {"panic", "end"}
    /\ \E s \in IF e.up THEN {e} ELSE scan([e EXCEPT !.ph = "open"]) :
         IF s.ph = "panic" THEN e' = s
         ELSE IF ~ e.up /\ s.ph = "err" THEN e' = s
         ELSE \E l \in IF s.sorted THEN {s} ELSE sort_devices(s) :
              e' = IF l.index < Len(l.devices)
                   THEN [l EXCEPT !.ph = "open", !.index = @ + 1, !.out = Append(@, l.devices[l.index + 1])]
                   ELSE [l EXCEPT !.ph = "end"]

\* The process ends.
leave == e # new /\ e.ph \in {"panic", "end", "err"} /\ e' = new

ENInit == e = new
ENNext ==
    \/ set_enumerator_type \/ add_prioritized_subsystem \/ add_match_subsystem
    \/ add_match_sysname \/ add_match_sysattr \/ add_match_tag \/ add_match_property
    \/ add_match_parent \/ add_match_is_initialized \/ next \/ leave

ENSpec == ENInit /\ [][ENNext]_e

-----------------------------------------------------------------------------
\* Properties.

Selected(d) ==
    /\ get_subsystem(d) \notin (UNION e.nosub) \cup {NoSub}
    /\ e.sub = {} \/ get_subsystem(d) \in UNION e.sub
    /\ Name(d) \notin UNION e.noname /\ (e.name = {} \/ Name(d) \in UNION e.name)
    /\ e.parent = {} \/ \E p \in e.parent : IsPrefix(p, d)

Linked == (UNION {BusDev[b] : b \in DOMAIN BusDev}) \cup (UNION {ClassDev[c] : c \in DOMAIN ClassDev})

\* However the directories are read, an enumeration that comes to its end has yielded each device
\* it found once, only devices that the rules select, and, when it looked for devices without
\* rules of other kinds, every device of a bus or a class they select. It is about the first
\* scan: after a second one next yields nothing (see add_device).
EnumeratesSelected ==
    e.ph = "end" /\ e.scans = 1 =>
        /\ Cardinality(Range(e.out)) = Len(e.out) /\ Range(e.out) = e.map
        /\ \A d \in Range(e.out) : Selected(d)
        /\ e.etype # "Subsystems" /\ e.parent = {} /\ e.prop = {} =>
              \A d \in Linked : Selected(d) => d \in Range(e.out)

\* A list where device_compare is an order has the directory above a device before the device, across the
\* prioritized parts too; and unless a subsystem is prioritized, md and dm come after the
\* other devices, and the control device of a card after the rest of the card.
ParentsFirst ==
    e.ph = "end" /\ Consistent(Range(e.devices)) =>
        \A i, k \in DOMAIN e.devices : i < k =>
            LET a == e.devices[i] b == e.devices[k] IN
            /\ Front(a) # b
            /\ e.prio = <<>> /\ devpath_is_late_block(a) => devpath_is_late_block(b)
            /\ e.prio = <<>> /\ Name(a) \in Control /\ IsPrefix(Front(a), b) => Name(b) \in Control
=============================================================================
