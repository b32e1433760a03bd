----------------------------- MODULE MCLifecycle -----------------------------
(***************************************************************************)
(* Instances of Lifecycle.  Octets have two bits, an unsigned long is      *)
(* twice as wide as an address.  Cases: the files and messages of a run;   *)
(* Documents: more files, for what the parsers make of them.               *)
(***************************************************************************)
EXTENDS Lifecycle, TLC

CONSTANTS eth0, eth1, S1, R1, R2, standard, other

MCCallers == {<<1, 1>>, <<1, 2>>, <<2, 1>>}
MCGarbage == {{0, 1}}

Field(key, value) == [key |-> key, value |-> value]
List(list) == [key |-> "devices", list |-> list]

D(interface, ip, mask) ==
  <<Field("interface", interface), Field("ip", ip), Field("mask", mask)>>

R(name, list) == <<Field("name", name), Field("port", standard), List(list)>>

ip0 == <<{0}, {}, {1}, {0}>>
ip1 == <<{1}, {0}, {}, {1}>>
dev0 == D(eth0, ip0, 6)
dev1 == D(eth1, ip1, 3)

ServerFields == <<Field("name", S1), Field("port", other), Field("ip", ip0), Field("mask", 6)>>

Case(document, inbox) ==
  [server |-> ServerFields, routers |-> document, readable |-> TRUE,
   inbox |-> inbox, fails |-> TRUE, apart |-> TRUE, ends |-> FALSE]

TwoDevices == Case(<<R(R1, <<dev0, dev1>>)>>, <<>>)
TwoRouters == Case(<<R(R1, <<dev0>>), R(R2, <<dev1>>)>>, <<>>)

Concurrent == [TwoDevices EXCEPT !.fails = FALSE, !.apart = FALSE]

UsualCases == {
  TwoDevices, TwoRouters, Concurrent,
  Case(<<R(R1, <<dev0>>)>>, <<2, 1, 3>>),
  Case(<<R(R1, <<dev0>>)>>, <<1, 4>>),                          (* buffer filled *)
  Case(<<R(R1, <<>>)>>, <<2, 5, 1>>),                           (* no device *)
  Case(<<<<Field("name", R1), List(<<dev0>>)>>>>, <<>>),        (* no port *)
  Case(<<R(R1, <<D(eth0, ip0, Width + 1)>>)>>, <<>>),           (* bad mask *)
  Case(<<R(R1, <<<<Field("interface", eth0)>>>>)>>, <<>>),      (* no address *)
  Case(<<<<List(<<dev0>>), Field("name", R1)>>>>, <<>>),        (* devices first *)
  Case(<<>>, <<>>),                                             (* no router *)
  [Case(<<R(R1, <<dev0>>)>>, <<>>) EXCEPT !.readable = FALSE],
  [Case(<<R(R1, <<>>)>>, <<>>) EXCEPT !.server = SubSeq(@, 1, 2)]}  (* no address *)

ConcurrentCases == {Concurrent}

-----------------------------------------------------------------------------
(* Devices with their keys in different orders, with keys missing; routers *)
(* with their keys in any order, without devices, with an empty list or an *)
(* empty value.                                                            *)

SomeLists ==
  {<<>>, <<dev0>>,
   <<dev0, <<Field("mask", 3), Field("ip", ip1), Field("interface", eth1)>>>>,
   <<<<Field("ip", ip1), Field("mask", 3)>>, dev0>>}

Entries(name) ==
  {<<Field("name", name)>>, <<Field("port", other), Field("name", name)>>}
  \cup UNION {{<<f[p[1]], f[p[2]], f[p[3]]>> : p \in Permutations(1..3)} :
         f \in {<<Field("name", name), Field("port", standard), d>> :
                  d \in {List(l) : l \in SomeLists} \cup {[key |-> "devices"]}}}

Shifted(name) ==
  {<<Field("name", name)>>, <<[key |-> "devices"], Field("name", name)>>,
   <<List(<<dev1>>), Field("name", name), Field("port", other)>>}

Read(document, fields) ==
  [Case(document, <<>>) EXCEPT !.server = fields, !.fails = FALSE, !.ends = TRUE]

ReadingCases ==
  {Read(<<x>>, ServerFields) : x \in Entries(R1) \cup {<<[key |-> "name"]>>}}
  \cup {Read(<<x, y>>, ServerFields) : x \in Entries(R1), y \in Shifted(R2)}
  \cup {Read(<<R(R1, <<dev0>>)>>, [i \in 1..4 |-> ServerFields[p[i]]]) : p \in Permutations(1..4)}
  \cup {Read(<<R(R1, <<dev0>>)>>, SubSeq(ServerFields, 1, n) \o <<[key |-> "mask"]>>) : n \in 0..2}

MCCases == UsualCases \cup ReadingCases

==============================================================================
