--------------------------- MODULE LifecycleProofs ---------------------------
(***************************************************************************)
(* Theorems about Lifecycle, for all files, numbers of routers and devices *)
(* and messages: memory is in order while every router has a listener      *)
(* left, what the server shows, the type invariant, and what is read of    *)
(* the files.                                                              *)
(***************************************************************************)
EXTENDS Lifecycle, ConfigParserProofs, TLAPS

-----------------------------------------------------------------------------
(* The server's buffer.                                                    *)

(* A byte is of the newest text that reached it, and of none before.       *)
Newest(b) ==
  \/ Reaching(b) = {} /\ buffer[b] = 0
  \/ buffer[b] \in Reaching(b) /\ \A i \in Reaching(b) : buffer[b] >= i

BufferInv ==
  /\ case \in Cases
  /\ texts \in Seq(Nat)
  /\ buffer = [b \in 1..BufferSize |-> buffer[b]]
  /\ \A b \in 1..BufferSize : Newest(b)
  /\ \A i \in DOMAIN texts : texts[i] <= BufferSize
  /\ \A i \in DOMAIN texts : i \in DOMAIN case.inbox /\ texts[i] <= case.inbox[i]

LEMMA BufferKept ==
  ASSUME BufferInv, UNCHANGED <<case, buffer, texts>>
  PROVE  BufferInv'
BY DEF BufferInv, Newest, Reaching

LEMMA BufferRead ==
  ASSUME BufferInv, NEW n \in 0..BufferSize, ServerReads(n)
  PROVE  BufferInv'
<1> USE CaseAssumption
<1> DEFINE new == Len(texts) + 1
<1>1. /\ texts \in Seq(Nat) /\ n \in Nat /\ texts' = Append(texts, n)
      /\ buffer' = [b \in 1..BufferSize |-> IF b <= n THEN new ELSE buffer[b]]
  BY DEF BufferInv, ServerReads, Message
<1>2. /\ texts' \in Seq(Nat) /\ DOMAIN texts = 1..Len(texts) /\ DOMAIN texts' = 1..new
      /\ texts'[new] = n /\ \A i \in DOMAIN texts : texts'[i] = texts[i]
      /\ new \in Nat /\ \A i \in DOMAIN texts : i < new
  BY <1>1
<1>3. ASSUME NEW b \in 1..BufferSize
      PROVE  Newest(b)'
  <2>1. Reaching(b) = {i \in 1..Len(texts) : texts[i] >= b}
    BY <1>2 DEF Reaching
  <2>2. Reaching(b)' = {i \in 1..new : texts'[i] >= b}
    BY <1>2 DEF Reaching
  <2>3. CASE b <= n
    <3>1. buffer'[b] = new /\ new \in Reaching(b)'
      BY <1>1, <1>2, <2>2, <2>3
    <3>2. \A i \in Reaching(b)' : new >= i
      BY <1>2, <2>2
    <3> QED BY <3>1, <3>2 DEF Newest
  <2>4. CASE ~(b <= n)
    <3>1. Reaching(b)' = Reaching(b)
      <4>1. 1..new = 1..Len(texts) \cup {new}
        BY <1>1
      <4>2. ~(texts'[new] >= b)
        BY <1>1, <1>2, <2>4
      <4> QED BY <4>1, <4>2, <1>2, <2>1, <2>2
    <3>2. buffer'[b] = buffer[b]
      BY <1>1, <2>4
    <3>3. Newest(b)
      BY DEF BufferInv
    <3> QED BY <3>1, <3>2, <3>3 DEF Newest
  <2> QED BY <2>3, <2>4
<1>4. buffer' = [b \in 1..BufferSize |-> buffer'[b]]
  BY <1>1
<1>5. \A i \in DOMAIN texts' : texts'[i] <= BufferSize
  BY <1>1, <1>2 DEF BufferInv
<1>6. case' = case /\ new \in DOMAIN case.inbox /\ n <= case.inbox[new]
  BY DEF ServerReads, ServerStep, Message
<1>7. \A i \in DOMAIN texts' : i \in DOMAIN case.inbox /\ texts'[i] <= case.inbox[i]
  <2>1. \A i \in DOMAIN texts : i \in DOMAIN case.inbox /\ texts'[i] <= case.inbox[i]
    BY <1>2 DEF BufferInv
  <2>2. \A i \in DOMAIN texts' : i \in DOMAIN texts \/ i = new
    BY <1>2
  <2> QED BY <1>2, <1>6, <2>1, <2>2
<1> QED BY <1>2, <1>3, <1>4, <1>5, <1>6, <1>7 DEF BufferInv

(* The last byte of the buffer is of a message that fills it.              *)
LEMMA StaysTerminated ==
  ASSUME BufferInv, ShortMessages, NEW n \in 0..BufferSize, ServerReads(n)
  PROVE  ~Unterminated'
<1> USE CaseAssumption
<1>1. BufferInv' /\ case' = case /\ ShortMessages'
  BY BufferRead DEF ServerReads, ServerStep, ShortMessages
<1>2. case \in Cases /\ case.inbox \in Seq(Nat)
  BY DEF BufferInv
<1>3. BufferSize \in 1..BufferSize
  <2>1. Message \in DOMAIN case.inbox
    BY DEF ServerReads
  <2> QED BY <1>2, <2>1 DEF ShortMessages
<1>4. \A i \in DOMAIN texts' : texts'[i] \in Nat /\ texts'[i] < BufferSize
  <2>1. ASSUME NEW i \in DOMAIN texts'
        PROVE  texts'[i] \in Nat /\ texts'[i] < BufferSize
    <3>1. texts'[i] \in Nat
      BY <1>1 DEF BufferInv
    <3>2. i \in DOMAIN case.inbox /\ texts'[i] <= case.inbox[i]
      BY <1>1 DEF BufferInv
    <3>3. case.inbox[i] \in Nat /\ case.inbox[i] < BufferSize
      BY <1>2, <3>2 DEF ShortMessages
    <3> QED BY <3>1, <3>2, <3>3
  <2> QED BY <2>1
<1>5. Reaching(BufferSize)' = {}
  BY <1>4 DEF Reaching
<1>6. Newest(BufferSize)'
  BY <1>1, <1>3 DEF BufferInv
<1>7. buffer'[BufferSize] = 0
  BY <1>5, <1>6 DEF Newest
<1> QED BY <1>3, <1>7 DEF Unterminated

(* Only the server's reads change the buffer.                              *)
LEMMA BufferStep ==
  ASSUME BufferInv, [Next]_vars
  PROVE  BufferInv'
<1>1. CASE UNCHANGED <<case, buffer, texts>>
  BY <1>1, BufferKept
<1>2. CASE \E n \in 0..BufferSize : ServerReads(n)
  BY <1>2, BufferRead
<1>3. CASE MainNext
  <2>1. UNCHANGED <<case, buffer, texts>>
    BY <1>3 DEF MainNext, ScanServer, ScanRouters, Scan, CloseServerFile, CloseRoutersFile,
                CreateServer, JoinRouters, DestroyRouters, DestroyServer, MainReturns,
                CreateRouter, serverVars
  <2> QED BY <2>1, BufferKept
<1>4. CASE Exits \/ ServerBinds \/ ServerMisbehaves \/ \E r \in Routers : RouterNext(r)
  <2>1. UNCHANGED <<case, buffer, texts>>
    BY <1>4 DEF Exits, ServerBinds, ServerMisbehaves, RouterNext, JoinListeners,
                DestroyRouter, FreeData, serverVars, ServerStep
  <2> QED BY <2>1, BufferKept
<1>5. CASE \E t \in AllDevices \cap Callers :
             \/ CreateListener(t) \/ ListenerStarts(t)
             \/ SelectFails(t) \/ AcceptFails(t) \/ CasterMisbehaves(t)
  <2>1. UNCHANGED <<case, buffer, texts>>
    BY <1>5 DEF CreateListener, ListenerStarts, SelectFails, AcceptFails, CasterMisbehaves,
                CallAddress, ProceedAddress, BindTcp, TcpBindFails, Listen, ListenFails,
                BindUdp, NotLocal, UdpFails, NoBroadcastAddress, CreateCaster, Step, Fails,
                serverVars
  <2> QED BY <2>1, BufferKept
<1>6. CASE UNCHANGED vars
  <2>1. UNCHANGED <<case, buffer, texts>>
    BY <1>6 DEF vars, serverVars
  <2> QED BY <2>1, BufferKept
<1> QED BY <1>1, <1>2, <1>3, <1>4, <1>5, <1>6 DEF Next, ServerNext

LEMMA BufferInit ==
  Init => BufferInv
<1> USE CaseAssumption
<1> SUFFICES ASSUME Init PROVE BufferInv
  OBVIOUS
<1>1. case \in Cases /\ texts = <<>> /\ buffer = [b \in 1..BufferSize |-> 0]
  BY DEF Init
<1>2. texts \in Seq(Nat) /\ DOMAIN texts = {}
  BY <1>1
<1>3. \A b \in 1..BufferSize : buffer[b] = 0 /\ Reaching(b) = {}
  BY <1>1, <1>2 DEF Reaching
<1> QED BY <1>1, <1>2, <1>3 DEF BufferInv, Newest

(* Every byte of its buffer that the server shows is of the newest message *)
(* that reached so far (start_server), for every size of the buffer and    *)
(* messages of all lengths, those that fill it or are cut at its end       *)
(* included: the bytes shown are those up to the longest text.  What "%s"  *)
(* reads behind a full buffer is not said.                                 *)
THEOREM ShowsTheNewest ==
  Spec => []ShowsNewest
<1> USE CaseAssumption
<1>1. BufferInv => ShowsNewest
  <2> SUFFICES ASSUME BufferInv PROVE ShowsNewest
    OBVIOUS
  <2>1. \A b \in 1..BufferSize : buffer[b] # 0 <=> Reaching(b) # {}
    BY DEF BufferInv, Newest, Reaching
  <2>2. \A b \in 1..BufferSize : \A a \in 1..b : Reaching(b) \subseteq Reaching(a)
    BY DEF BufferInv, Reaching
  <2>3. Shown = {b \in 1..BufferSize : Reaching(b) # {}}
    <3>1. \A b \in 1..BufferSize : b \in 1..b /\ 1..b \subseteq 1..BufferSize
      OBVIOUS
    <3>2. ASSUME NEW b \in 1..BufferSize
          PROVE  (\A a \in 1..b : buffer[a] # 0) <=> Reaching(b) # {}
      <4>1. \A a \in 1..b : a \in 1..BufferSize
        BY <3>1
      <4>2. (\A a \in 1..b : buffer[a] # 0) <=> (\A a \in 1..b : Reaching(a) # {})
        BY <4>1, <2>1
      <4>3. (\A a \in 1..b : Reaching(a) # {}) <=> Reaching(b) # {}
        BY <2>2, <3>1
      <4> QED BY <4>2, <4>3
    <3> QED BY <3>2 DEF Shown
  <2>4. \A b \in Shown : Newest(b) /\ Reaching(b) # {}
    BY <2>3 DEF BufferInv
  <2>5. \A b \in Shown : buffer[b] \in Reaching(b) /\ \A i \in Reaching(b) : buffer[b] >= i
    BY <2>4 DEF Newest
  <2> QED BY <2>3, <2>5 DEF ShowsNewest
<1> QED BY <1>1, BufferInit, BufferStep, PTL DEF Spec

-----------------------------------------------------------------------------
(* Memory.                                                                 *)

AllReading == {"read server", "read routers"}
Late == {"destroy", "destroy server", "return", "ended"}

(* The shape of the variables: enough to know what EXCEPT changes.         *)
CallFields == {"at", "token", "seen", "next"}

Shapes ==
  /\ main \in AllReading \cup {"create", "join"} \cup Late
  /\ main \notin AllReading =>
       /\ thread = [r \in Routers |-> thread[r]]
       /\ listener = [t \in AllDevices |-> listener[t]]
  /\ call = [c \in Callers |-> call[c]]
  /\ \A c \in Callers : CallFields \subseteq DOMAIN call[c]

(* Before the routers are known nothing is destroyed, and a fault ends the *)
(* process.                                                                *)
NothingYet ==
  /\ main \in AllReading => routers = <<>> /\ (alive => ~fault)
  /\ main \in AllReading => serving = "none" /\ \A c \in Callers : call[c].at = "idle"

(* startRouter and main go on only when the threads they wait for ended.   *)
JoinedAll ==
  /\ \A r \in Routers : thread[r] \in {"destroy", "free", "ended"} => AllEnded(r)
  /\ \A r \in destroyed : r \in Routers /\ AllEnded(r)
  /\ main \in Late => \A r \in Routers : AllEnded(r)

(* calculate_broadcast_address refuses what it should.                     *)
RefusedUnusable ==
  \A t \in AllDevices \cap Callers :
    call[t].at = "refused" => Device(t).ip = Null \/ Device(t).mask \notin Masks

(* As long as no calls have overlapped, strtok is in the copy of the call  *)
(* that runs.                                                              *)
Own(c, place) == "copy" \in DOMAIN place /\ place.copy = c

AtHome(c) ==
  /\ Own(c, olds)
  /\ call[c].at = "add" => Own(c, call[c].token)
  /\ call[c].at \in {"scan", "cut"} => Own(c, call[c].seen)
  /\ call[c].at = "cut" => Own(c, call[c].token)
  /\ call[c].at = "store" =>
       Own(c, call[c].next) /\ (call[c].token = Null \/ Own(c, call[c].token))

StrtokAtHome ==
  overlapped = {} => \A c \in Callers : Running(c) => Others(c) = {} /\ AtHome(c)

(* What a fault tells of the files, the messages, the calls or the         *)
(* listeners.                                                              *)
Orderly == Usable /\ ShortMessages /\ overlapped = {}

FaultExplained ==
  fault /\ Orderly /\ Routers # {} => \E r \in Routers : AllEnded(r)

MemoryInv ==
  Shapes /\ NothingYet /\ JoinedAll /\ RefusedUnusable /\ StrtokAtHome /\ FaultExplained

(* The conjunction implies the property.                                   *)
LEMMA MemoryInvSuffices ==
  MemoryInv => SafeWhileListening
<1> SUFFICES ASSUME MemoryInv, Orderly, Routers # {},
                    \A r \in Routers : \E t \in Devices(r) : listener[t] # "ended"
             PROVE  ~fault /\ destroyed = {} /\ main \in {"create", "join"}
  BY DEF SafeWhileListening, Orderly
<1>1. \A r \in Routers : ~AllEnded(r)
  BY DEF AllEnded
<1>2. ~fault
  BY <1>1 DEF MemoryInv, FaultExplained
<1>3. destroyed = {}
  BY <1>1 DEF MemoryInv, JoinedAll
<1>4. main \notin Late
  BY <1>1 DEF MemoryInv, JoinedAll
<1>5. main \notin AllReading
  <2>1. Routers = {} \/ routers # <<>>
    BY DEF Routers
  <2> QED BY <2>1 DEF MemoryInv, NothingYet
<1> QED BY <1>2, <1>3, <1>4, <1>5 DEF MemoryInv, Shapes

LEMMA MemoryInit ==
  Init => MemoryInv
<1> SUFFICES ASSUME Init PROVE MemoryInv
  OBVIOUS
<1>1. /\ main = "read server" /\ routers = <<>> /\ ~fault /\ destroyed = {} /\ serving = "none"
      /\ thread = <<>> /\ listener = <<>>
      /\ call = [c \in Callers |-> NoCall]
  BY DEF Init, AddressInit
<1>2. Routers = {}
  <2>1. routers = <<>>
    BY <1>1
  <2> QED BY <2>1 DEF Routers
<1>3. \A c \in Callers : call[c].at = "idle" /\ call[c].at # "refused" /\ CallFields \subseteq DOMAIN call[c]
  <2>1. NoCall.at = "idle" /\ CallFields \subseteq DOMAIN NoCall
    BY DEF NoCall, CallFields
  <2> QED BY <1>1, <2>1
<1>4. Shapes
  BY <1>1, <1>3 DEF Shapes, AllReading
<1>5. NothingYet
  BY <1>1, <1>3 DEF NothingYet
<1>6. JoinedAll
  BY <1>1, <1>2 DEF JoinedAll
<1>7. RefusedUnusable
  BY <1>3 DEF RefusedUnusable
<1>8. StrtokAtHome
  BY <1>3 DEF StrtokAtHome, Running
<1>9. FaultExplained
  BY <1>1 DEF FaultExplained
<1> QED BY <1>4, <1>5, <1>6, <1>7, <1>8, <1>9 DEF MemoryInv

-----------------------------------------------------------------------------
(* Once the files are read the routers stay what they are, and listeners   *)
(* that have ended stay so.                                                *)

RoutersStay ==
  /\ routers' = routers /\ server' = server /\ Routers' = Routers
  /\ AllDevices' = AllDevices /\ Usable' = Usable /\ (Orderly' => Orderly)
  /\ \A t \in AllDevices : Device(t)' = Device(t)
  /\ \A r \in Routers : Devices(r)' = Devices(r)

EndedStay ==
  /\ listener' = [t \in AllDevices |-> listener'[t]]
  /\ \A t \in AllDevices : listener[t] = "ended" => listener'[t] = "ended"

LEMMA RoutersKept ==
  ASSUME UNCHANGED <<routers, server, case>>, overlapped' = {} => overlapped = {}
  PROVE  RoutersStay
<1>1. Routers' = Routers
  BY DEF Routers
<1>2. \A r : Devices(r)' = Devices(r)
  BY DEF Devices
<1>3. \A t : Device(t)' = Device(t)
  BY DEF Device
<1>4. AllDevices' = AllDevices
  BY <1>1, <1>2 DEF AllDevices
<1>5. Usable' = Usable
  BY <1>1, <1>3, <1>4 DEF Usable, NoPort
<1>6. Orderly' => Orderly
  BY <1>5 DEF Orderly, ShortMessages
<1> QED BY <1>1, <1>2, <1>3, <1>4, <1>5, <1>6 DEF RoutersStay

LEMMA AllEndedStays ==
  ASSUME MemoryInv, RoutersStay, EndedStay, NEW r \in Routers, AllEnded(r)
  PROVE  AllEnded(r)'
<1>1. Devices(r) \subseteq AllDevices
  BY DEF AllDevices
<1> QED BY <1>1 DEF AllEnded, RoutersStay, EndedStay

LEMMA ListenersKept ==
  ASSUME MemoryInv, main \notin AllReading, UNCHANGED listener
  PROVE  EndedStay
BY DEF MemoryInv, Shapes, EndedStay

LEMMA ListenerMoves ==
  ASSUME MemoryInv, main \notin AllReading, NEW t, NEW to, listener[t] # "ended", listener' = [listener EXCEPT ![t] = to]
  PROVE  EndedStay
BY DEF MemoryInv, Shapes, EndedStay

LEMMA HomeKept ==
  ASSUME StrtokAtHome, UNCHANGED addressVars
  PROVE  StrtokAtHome'
BY DEF StrtokAtHome, AtHome, Others, Running, addressVars

(* What a step must say of the other variables: no new fault, unless it is *)
(* explained, no new refusal, and who goes on has waited.                  *)
LEMMA StepPreserves ==
  ASSUME MemoryInv, RoutersStay, EndedStay, main \notin AllReading,
         main' \in {"create", "join"} \cup Late,
         main' \in Late => main \in Late \/ \A r \in Routers : thread[r] = "ended",
         thread' = [r \in Routers |-> thread'[r]],
         \A r \in Routers : thread'[r] \in {"destroy", "free", "ended"} =>
            thread[r] \in {"destroy", "free", "ended"} \/ AllEnded(r),
         \A r \in destroyed' : r \in destroyed \/ (r \in Routers /\ AllEnded(r)),
         call' = [c \in Callers |-> call'[c]],
         \A c \in Callers : CallFields \subseteq DOMAIN call'[c],
         UNCHANGED addressVars \/ StrtokAtHome',
         \A t \in AllDevices \cap Callers : call'[t].at = "refused" =>
            call[t].at = "refused" \/ Device(t).ip = Null \/ Device(t).mask \notin Masks,
         fault' /\ Orderly /\ Routers # {} => fault \/ \E r \in Routers : AllEnded(r)
  PROVE  MemoryInv'
<1>1. \A r \in Routers : AllEnded(r) => AllEnded(r)'
  BY AllEndedStays
<1>2. main' \notin AllReading
  BY DEF AllReading, Late
<1>3. Shapes'
  BY DEF Shapes, RoutersStay, EndedStay
<1>4. NothingYet'
  BY <1>2 DEF NothingYet
<1>5. JoinedAll'
  <2>1. \A r \in Routers : thread[r] \in {"destroy", "free", "ended"} => AllEnded(r)
    BY DEF MemoryInv, JoinedAll
  <2>2. \A r \in Routers' : thread'[r] \in {"destroy", "free", "ended"} => AllEnded(r)'
    BY <2>1, <1>1 DEF RoutersStay
  <2>3. \A r \in destroyed : r \in Routers /\ AllEnded(r)
    BY DEF MemoryInv, JoinedAll
  <2>4. \A r \in destroyed' : r \in Routers' /\ AllEnded(r)'
    BY <2>3, <1>1 DEF RoutersStay
  <2>5. main' \in Late => \A r \in Routers : AllEnded(r)
    BY <2>1 DEF MemoryInv, JoinedAll
  <2>6. main' \in Late => \A r \in Routers' : AllEnded(r)'
    BY <2>5, <1>1 DEF RoutersStay
  <2> QED BY <2>2, <2>4, <2>6 DEF JoinedAll
<1>6. RefusedUnusable'
  BY DEF MemoryInv, RefusedUnusable, RoutersStay
<1>7. FaultExplained'
  BY <1>1 DEF MemoryInv, FaultExplained, RoutersStay
<1>8. StrtokAtHome'
  BY HomeKept DEF MemoryInv
<1> QED BY <1>3, <1>4, <1>5, <1>6, <1>7, <1>8 DEF MemoryInv

-----------------------------------------------------------------------------
(* The steps of main.                                                      *)

LEMMA WhileReading ==
  ASSUME MemoryInv, alive, main \in AllReading, main' \in AllReading,
         UNCHANGED <<routers, serving, destroyed, call>>, fault' => ~alive'
  PROVE  MemoryInv'
<1>1. routers = <<>> /\ serving = "none" /\ \A c \in Callers : call[c].at = "idle"
  BY DEF MemoryInv, NothingYet
<1>2. Routers = {} /\ Routers' = {}
  BY <1>1 DEF Routers
<1>3. Shapes'
  BY DEF MemoryInv, Shapes
<1>4. NothingYet'
  BY <1>1 DEF NothingYet
<1>5. JoinedAll'
  <2>1. destroyed' = {}
    BY <1>2 DEF MemoryInv, JoinedAll
  <2> QED BY <2>1, <1>2 DEF JoinedAll
<1>6. RefusedUnusable'
  BY <1>1 DEF RefusedUnusable
<1>7. FaultExplained'
  BY <1>2 DEF FaultExplained
<1>8. StrtokAtHome'
  BY <1>1 DEF StrtokAtHome, Running
<1> QED BY <1>3, <1>4, <1>5, <1>6, <1>7, <1>8 DEF MemoryInv

LEMMA FilesRead ==
  ASSUME MemoryInv, CloseRoutersFile
  PROVE  MemoryInv'
<1>1. /\ main = "read routers" /\ main' = "create" /\ alive
      /\ thread' = [r \in Routers' |-> "none"]
      /\ listener' = [t \in AllDevices' |-> "none"]
      /\ fault' = fault /\ destroyed' = destroyed /\ call' = call
  BY DEF CloseRoutersFile, Defined, addressVars
<1>2. /\ routers = <<>> /\ ~fault
      /\ \A c \in Callers : call[c].at = "idle"
  BY <1>1 DEF MemoryInv, NothingYet, AllReading
<1>3. destroyed = {}
  <2>1. Routers = {}
    BY <1>2 DEF Routers
  <2> QED BY <2>1 DEF MemoryInv, JoinedAll
<1>4. main' \notin AllReading /\ main' \notin Late
  BY <1>1 DEF AllReading, Late
<1>5. Shapes'
  <2>1. /\ thread' = [r \in Routers' |-> thread'[r]]
        /\ listener' = [t \in AllDevices' |-> listener'[t]]
    BY <1>1
  <2>2. call' = [c \in Callers |-> call'[c]] /\ \A c \in Callers : CallFields \subseteq DOMAIN call'[c]
    BY <1>1 DEF MemoryInv, Shapes
  <2> QED BY <2>1, <2>2, <1>1 DEF Shapes
<1>6. NothingYet'
  BY <1>4 DEF NothingYet
<1>7. JoinedAll'
  BY <1>1, <1>3, <1>4 DEF JoinedAll
<1>8. RefusedUnusable'
  BY <1>1, <1>2 DEF RefusedUnusable
<1>9. ~fault'
  BY <1>1, <1>2
<1>10. FaultExplained'
  BY <1>9 DEF FaultExplained
<1>11. StrtokAtHome'
  BY <1>1, <1>2 DEF StrtokAtHome, Running
<1> QED BY <1>5, <1>6, <1>7, <1>8, <1>10, <1>11 DEF MemoryInv

LEMMA MainSteps ==
  ASSUME MemoryInv, MainNext
  PROVE  MemoryInv'
<1>1. CASE ScanServer \/ ScanRouters
  <2>1. /\ alive /\ main \in AllReading /\ main' = main
        /\ UNCHANGED <<routers, serving, destroyed, call>>
        /\ (fault' = TRUE /\ alive' = FALSE) \/ Defined
    BY <1>1 DEF ScanServer, ScanRouters, Scan, AllReading, threadVars, serverVars, addressVars
  <2>2. ~fault
    BY <2>1 DEF MemoryInv, NothingYet
  <2>3. fault' => ~alive'
    BY <2>1, <2>2 DEF Defined
  <2> QED BY <2>1, <2>3, WhileReading
<1>2. CASE CloseServerFile
  <2>1. /\ alive /\ main \in AllReading /\ main' \in AllReading
        /\ UNCHANGED <<routers, serving, destroyed, call>> /\ Defined
    BY <1>2 DEF CloseServerFile, AllReading, serverVars, addressVars
  <2>2. ~fault
    BY <2>1 DEF MemoryInv, NothingYet
  <2>3. fault' => ~alive'
    BY <2>1, <2>2 DEF Defined
  <2> QED BY <2>1, <2>3, WhileReading
<1>3. CASE CloseRoutersFile
  BY <1>3, FilesRead
<1>4. CASE CreateServer \/ JoinRouters \/ DestroyRouters \/ DestroyServer \/ MainReturns
  <2>1. /\ main \notin AllReading /\ main' \in {"create", "join"} \cup Late
        /\ main' \in Late => main \in Late \/ \A r \in Routers : thread[r] = "ended"
        /\ UNCHANGED <<case, routers, server, thread, listener, destroyed, call, addressVars>>
        /\ Defined \/ UNCHANGED fault \/ (main \in Late /\ destroyed # {})
    BY <1>4 DEF CreateServer, JoinRouters, DestroyRouters, DestroyServer, MainReturns, AllReading,
                Late, DefinedUnless, threadVars, addressVars, fileVars
  <2>2. fault' => fault \/ \E r \in Routers : AllEnded(r)
    BY <2>1 DEF Defined, MemoryInv, JoinedAll
  <2>3. RoutersStay /\ EndedStay
    BY <2>1, RoutersKept, ListenersKept DEF addressVars
  <2> QED BY <2>1, <2>2, <2>3, StepPreserves DEF MemoryInv, Shapes
<1>5. ASSUME NEW r \in Routers, CreateRouter(r)
      PROVE  MemoryInv'
  <2>1. /\ main = "create" /\ main' = main
        /\ thread' = [thread EXCEPT ![r] = "create"]
        /\ UNCHANGED <<case, routers, server, listener, destroyed, call, addressVars, fault>>
    BY <1>5 DEF CreateRouter, Defined, addressVars, fileVars
  <2>2. main \notin AllReading /\ main' \in {"create", "join"} /\ main' \notin Late
    BY <2>1 DEF AllReading, Late
  <2>3. /\ thread' = [q \in Routers |-> thread'[q]]
        /\ \A q \in Routers : thread'[q] \in {"destroy", "free", "ended"} =>
             thread[q] \in {"destroy", "free", "ended"}
    BY <2>1, <2>2 DEF MemoryInv, Shapes
  <2>4. RoutersStay /\ EndedStay
    BY <2>1, <2>2, RoutersKept, ListenersKept DEF addressVars
  <2> QED BY <2>1, <2>2, <2>3, <2>4, StepPreserves DEF MemoryInv, Shapes
<1> QED BY <1>1, <1>2, <1>3, <1>4, <1>5 DEF MainNext

(* The steps of the server, and the exits.                                 *)
LEMMA ServerSteps ==
  ASSUME MemoryInv, BufferInv, ServerNext \/ Exits
  PROVE  MemoryInv'
<1>1. /\ UNCHANGED <<case, routers, server, thread, listener, main, destroyed, call, addressVars>>
      /\ alive
      /\ (alive' = FALSE /\ UNCHANGED <<fault, serving>>) \/ serving \in {"bind", "serve"}
      /\ UNCHANGED fault \/ server.ip = Null \/ main = "return" \/ ~ShortMessages
  <2>1. CASE ServerBinds
    BY <2>1 DEF ServerBinds, ServerStep, Defined, DefinedUnless, threadVars, addressVars, fileVars
  <2>2. CASE ServerMisbehaves
    BY <2>2 DEF ServerMisbehaves, ServerStep, threadVars, addressVars, fileVars
  <2>3. ASSUME NEW n \in 0..BufferSize, ServerReads(n)
        PROVE  <1>1!:
    <3>1. UNCHANGED fault \/ ~ShortMessages
      BY <2>3, StaysTerminated DEF ServerReads, Defined, DefinedUnless
    <3> QED BY <2>3, <3>1 DEF ServerReads, ServerStep, threadVars, addressVars, fileVars
  <2>4. CASE Exits
    BY <2>4 DEF Exits, threadVars, serverVars, addressVars, fileVars
  <2> QED BY <2>1, <2>2, <2>3, <2>4 DEF ServerNext
<1>2. CASE main \in AllReading
  <2>1. alive' = FALSE /\ UNCHANGED <<fault, serving>>
    BY <1>1, <1>2 DEF MemoryInv, NothingYet
  <2> QED BY <1>1, <1>2, <2>1, WhileReading
<1>3. CASE main \notin AllReading
  <2>1. RoutersStay /\ EndedStay
    BY <1>1, <1>3, RoutersKept, ListenersKept DEF addressVars
  <2>2. fault' => fault \/ ~Orderly \/ main \in Late
    BY <1>1 DEF Orderly, Usable, Late
  <2>3. fault' /\ Orderly /\ Routers # {} => fault \/ \E r \in Routers : AllEnded(r)
    BY <2>2 DEF MemoryInv, JoinedAll
  <2> QED BY <1>1, <1>3, <2>1, <2>3, StepPreserves DEF MemoryInv, Shapes
<1> QED BY <1>2, <1>3

-----------------------------------------------------------------------------
(* The steps of startRouter.                                               *)

LEMMA RouterSteps ==
  ASSUME MemoryInv, NEW r \in Routers, RouterNext(r)
  PROVE  MemoryInv'
<1>1. /\ UNCHANGED <<case, routers, server, listener, main, call, addressVars>>
      /\ \E to : thread' = [thread EXCEPT ![r] = to]
      /\ destroyed' \subseteq destroyed \cup {r}
      /\ thread[r] \in {"destroy", "free"} \/ (AllEnded(r) /\ UNCHANGED <<destroyed, fault>>)
  BY DEF RouterNext, JoinListeners, DestroyRouter, FreeData, Defined, addressVars, fileVars
<1>2. AllEnded(r)
  BY <1>1 DEF MemoryInv, JoinedAll
<1>3. main \notin AllReading
  <2>1. Routers = {} \/ routers # <<>>
    BY DEF Routers
  <2> QED BY <2>1 DEF MemoryInv, NothingYet
<1>4. /\ thread' = [q \in Routers |-> thread'[q]]
      /\ \A q \in Routers : q # r => thread'[q] = thread[q]
  BY <1>1, <1>3 DEF MemoryInv, Shapes
<1>5. RoutersStay /\ EndedStay
  BY <1>1, <1>3, RoutersKept, ListenersKept DEF addressVars
<1>6. \A q \in Routers : thread'[q] \in {"destroy", "free", "ended"} =>
        thread[q] \in {"destroy", "free", "ended"} \/ AllEnded(q)
  BY <1>2, <1>4
<1> QED BY <1>1, <1>2, <1>3, <1>4, <1>5, <1>6, StepPreserves DEF MemoryInv, Shapes

-----------------------------------------------------------------------------
(* The steps of deviceThread and send_on_broadcast.                        *)

(* A listener exists only once the files are read.                         *)
LEMMA DevicesRead ==
  ASSUME MemoryInv, AllDevices # {}
  PROVE  main \notin AllReading
<1>1. routers = <<>> => Routers = {}
  BY DEF Routers
<1>2. Routers = {} => AllDevices = {}
  <2>1. \A t \in AllDevices : \E r \in Routers : t \in Devices(r)
    BY Zenon DEF AllDevices
  <2> QED BY <2>1
<1> QED BY <1>1, <1>2 DEF MemoryInv, NothingYet

(* The steps of calculate_broadcast_address: only t's call can be refused, *)
(* and only when it should.                                                *)
LEMMA AddressSteps ==
  ASSUME MemoryInv, NEW t \in Callers,
         CallAddress(t) \/ ProceedAddress(t)
  PROVE  /\ call' = [c \in Callers |-> call'[c]]
         /\ \A c \in Callers : CallFields \subseteq DOMAIN call'[c]
         /\ \A c \in Callers : call'[c].at = "refused" =>
               \/ call[c].at = "refused"
               \/ c = t /\ (Device(t).ip = Null \/ Device(t).mask \notin Masks)
<1> USE DEF MemoryInv, Shapes, CallFields
<1>1. CASE CallAddress(t)
  <2>1. CASE FirstToken(t, Device(t).ip, Device(t).mask)
    BY <2>1 DEF FirstToken
  <2>2. CASE Refuse(t, Device(t).ip, Device(t).mask)
    BY <2>2 DEF Refuse, Goto
  <2> QED BY <1>1, <2>1, <2>2 DEF CallAddress
<1>2. CASE AddOctet(t)
  BY <1>2 DEF AddOctet
<1>3. CASE LoadPosition(t)
  BY <1>3 DEF LoadPosition
<1>4. CASE ScanNothing(t)
  BY <1>4 DEF ScanNothing
<1>5. CASE ScanLast(t)
  BY <1>5 DEF ScanLast
<1>6. CASE ScanDot(t)
  BY <1>6 DEF ScanDot
<1>7. CASE CutDot(t)
  BY <1>7 DEF CutDot
<1>8. CASE StorePosition(t)
  BY <1>8 DEF StorePosition, Goto
<1> QED BY <1>1, <1>2, <1>3, <1>4, <1>5, <1>6, <1>7, <1>8 DEF ProceedAddress, Proceed

LEMMA OwnPlaces ==
  ASSUME NEW c
  PROVE  /\ \A n : Own(c, Start(c, n))
         /\ \A place : Own(c, place) => Own(c, EndOf(place))
BY DEF Own, Start, EndOf

(* A call that runs undisturbed is alone and does not stray.               *)
LEMMA AloneAtHome ==
  ASSUME MemoryInv, NEW t \in Callers, Proceed(t), overlapped = {}
  PROVE  /\ AtHome(t) /\ ~Strays(t)
         /\ \A c \in Callers \ {t} : ~Running(c)
<1>1. Running(t)
  BY DEF Proceed, Running, AddOctet, LoadPosition, ScanNothing, ScanLast, ScanDot, CutDot,
         StorePosition
<1>2. AtHome(t) /\ Others(t) = {}
  BY <1>1 DEF MemoryInv, StrtokAtHome
<1>3. ~Strays(t)
  BY <1>1, <1>2 DEF AtHome, Own, Strays
<1> QED BY <1>2, <1>3 DEF Others

(* One access of such a call changes its own state only, and stays in its  *)
(* own copy.                                                               *)
LEMMA StaysAtHome ==
  ASSUME MemoryInv, NEW t \in Callers, Proceed(t), overlapped = {}
  PROVE  AtHome(t)' /\ \A c \in Callers \ {t} : call'[c] = call[c]
<1> USE DEF Shapes, CallFields, AtHome
<1> DEFINE Home == AtHome(t)' /\ \A c \in Callers \ {t} : call'[c] = call[c]
<1>1. Shapes /\ AtHome(t)
  BY AloneAtHome DEF MemoryInv
<1>2. CASE AddOctet(t)
  BY <1>1, <1>2 DEF AddOctet
<1>3. CASE LoadPosition(t)
  BY <1>1, <1>3 DEF LoadPosition
<1>4. CASE ScanNothing(t)
  BY <1>1, <1>4 DEF ScanNothing
<1>5. CASE ScanLast(t)
  BY <1>1, <1>5, OwnPlaces DEF ScanLast
<1>6. CASE ScanDot(t)
  BY <1>1, <1>6 DEF ScanDot
<1>7. CASE CutDot(t)
  <2>1. call[t].seen.copy = t
    BY <1>1, <1>7 DEF CutDot, Own
  <2> QED BY <1>1, <1>7, <2>1, OwnPlaces DEF CutDot
<1>8. CASE StorePosition(t)
  BY <1>1, <1>8 DEF StorePosition, Goto
<1> QED BY <1>2, <1>3, <1>4, <1>5, <1>6, <1>7, <1>8 DEF Proceed

(* Calls that start alone are at home, too.                                *)
LEMMA HomeSteps ==
  ASSUME MemoryInv, NEW t \in Callers, CallAddress(t) \/ ProceedAddress(t)
  PROVE  StrtokAtHome' /\ (overlapped' = {} => overlapped = {})
<1>1. CASE ProceedAddress(t)
  <2>1. Proceed(t) /\ overlapped' = overlapped
    BY <1>1 DEF ProceedAddress, Proceed, AddOctet, LoadPosition, ScanNothing, ScanLast, ScanDot,
                CutDot, StorePosition
  <2>2. ASSUME overlapped = {}, NEW c \in Callers, Running(c)'
        PROVE  Others(c)' = {} /\ AtHome(c)'
    <3>1. \A d \in Callers \ {t} : ~Running(d)'
      BY <2>1, <2>2, AloneAtHome, StaysAtHome DEF Running
    <3>2. c = t /\ Others(t)' = {}
      BY <2>2, <3>1 DEF Others
    <3> QED BY <2>1, <2>2, <3>2, StaysAtHome
  <2> QED BY <2>1, <2>2 DEF StrtokAtHome
<1>2. CASE FirstToken(t, Device(t).ip, Device(t).mask)
  <2>1. /\ overlapped' = {} => overlapped = {} /\ Others(t) = {}
        /\ olds' = Start(t, 2)
        /\ \A c \in Callers \ {t} : call'[c] = call[c]
        /\ call'[t].at = "add" /\ call'[t].token = Start(t, 1)
    BY <1>2 DEF FirstToken, MemoryInv, Shapes
  <2>2. ASSUME overlapped' = {}, NEW c \in Callers, Running(c)'
        PROVE  Others(c)' = {} /\ AtHome(c)'
    <3>1. \A d \in Callers \ {t} : ~Running(d)'
      BY <2>1, <2>2 DEF Others, Running
    <3>2. c = t /\ Others(t)' = {}
      BY <2>2, <3>1 DEF Others
    <3> QED BY <2>1, <3>2, OwnPlaces DEF AtHome
  <2> QED BY <2>1, <2>2 DEF StrtokAtHome
<1>3. CASE Refuse(t, Device(t).ip, Device(t).mask)
  <2>1. /\ UNCHANGED <<olds, overlapped>> /\ ~Running(t)'
        /\ \A c \in Callers \ {t} : call'[c] = call[c]
    <3>1. UNCHANGED <<olds, overlapped>> /\ call' = [call EXCEPT ![t].at = "refused"]
      BY <1>3 DEF Refuse, Goto
    <3>2. call = [c \in Callers |-> call[c]] /\ "at" \in DOMAIN call[t]
      BY DEF MemoryInv, Shapes, CallFields
    <3>3. call'[t].at = "refused"
      BY <3>1, <3>2
    <3>4. \A c \in Callers \ {t} : call'[c] = call[c]
      BY <3>1, <3>2
    <3> QED BY <3>1, <3>3, <3>4 DEF Running
  <2>2. ASSUME overlapped = {}, NEW c \in Callers, Running(c)'
        PROVE  Others(c)' = {} /\ AtHome(c)'
    <3>1. c # t /\ Running(c)
      BY <2>1, <2>2 DEF Running
    <3>2. Others(c) = {} /\ AtHome(c)
      BY <2>2, <3>1 DEF MemoryInv, StrtokAtHome
    <3>3. AtHome(c)'
      BY <2>1, <3>1, <3>2 DEF AtHome
    <3>4. \A d \in Callers \ {c} : ~Running(d)'
      BY <2>1, <3>2 DEF Others, Running
    <3> QED BY <3>3, <3>4 DEF Others
  <2> QED BY <2>1, <2>2 DEF StrtokAtHome
<1> QED BY <1>1, <1>2, <1>3 DEF CallAddress

LEMMA ListenerSteps ==
  ASSUME MemoryInv, NEW t \in AllDevices \cap Callers,
         \/ CreateListener(t) \/ ListenerStarts(t)
         \/ SelectFails(t) \/ AcceptFails(t) \/ CasterMisbehaves(t)
  PROVE  MemoryInv'
<1>1. main \notin AllReading
  BY DevicesRead
<1>2. UNCHANGED <<case, routers, server, main, thread, destroyed>>
  BY DEF CreateListener, ListenerStarts, SelectFails, AcceptFails, CasterMisbehaves,
         CallAddress, ProceedAddress, BindTcp, TcpBindFails, Listen, ListenFails,
         BindUdp, NotLocal, UdpFails, NoBroadcastAddress, CreateCaster, Step, Fails,
         threadVars, fileVars
<1>3. ASSUME RoutersStay, EndedStay,
             call' = [c \in Callers |-> call'[c]],
             \A c \in Callers : CallFields \subseteq DOMAIN call'[c],
             UNCHANGED addressVars \/ StrtokAtHome',
             \A c \in AllDevices \cap Callers : call'[c].at = "refused" =>
               call[c].at = "refused" \/ Device(c).ip = Null \/ Device(c).mask \notin Masks,
             fault' /\ Orderly => fault \/ \E r \in Routers : AllEnded(r)
      PROVE  MemoryInv'
  BY <1>1, <1>2, <1>3, StepPreserves DEF MemoryInv, Shapes
<1>4. Usable => Device(t).ip # Null /\ Device(t).mask \in Masks /\ ~NoPort(t)
  BY DEF Usable
<1>5. CASE CallAddress(t) \/ ProceedAddress(t)
  <2>1. UNCHANGED listener
    BY <1>5 DEF CallAddress, ProceedAddress, threadVars
  <2>2. EndedStay
    BY <1>1, <2>1, ListenersKept
  <2>3. RoutersStay
    BY <1>2, <1>5, HomeSteps, RoutersKept
  <2>4. fault' /\ Orderly => fault
    <3>1. CASE CallAddress(t)
      BY <3>1 DEF CallAddress, Defined
    <3>2. CASE ProceedAddress(t)
      <4>1. Orderly => ~Strays(t)
        BY <3>2, AloneAtHome DEF ProceedAddress, Orderly
      <4> QED BY <3>2, <4>1 DEF ProceedAddress, Defined, DefinedUnless
    <3> QED BY <1>5, <3>1, <3>2
  <2> QED BY <1>3, <1>5, <2>2, <2>3, <2>4, AddressSteps, HomeSteps
<1>6. ASSUME UNCHANGED addressVars, EndedStay,
             fault' /\ Orderly => fault \/ \E r \in Routers : AllEnded(r)
      PROVE  MemoryInv'
  <2>1. RoutersStay /\ call' = call
    BY <1>2, <1>6, RoutersKept DEF addressVars
  <2> QED BY <1>3, <1>6, <2>1 DEF MemoryInv, Shapes
<1>7. CASE CasterMisbehaves(t)
  <2>1. /\ UNCHANGED <<addressVars, listener>>
        /\ t[1] \in destroyed \/ routers[t[1]].table = Unset
    BY <1>7 DEF CasterMisbehaves
  <2>2. t[1] \in Routers
    <3>1. \E r \in Routers : t \in Devices(r)
      BY Zenon DEF AllDevices
    <3> QED BY <3>1 DEF Devices
  <2>3. Orderly => \E r \in Routers : AllEnded(r)
    BY <2>1, <2>2 DEF Orderly, Usable, MemoryInv, JoinedAll
  <2>4. EndedStay
    BY <1>1, <2>1, ListenersKept
  <2> QED BY <1>6, <2>1, <2>3, <2>4
<1>8. CASE \/ CreateListener(t) \/ BindTcp(t) \/ TcpBindFails(t) \/ Listen(t) \/ ListenFails(t)
           \/ BindUdp(t) \/ NotLocal(t) \/ UdpFails(t) \/ NoBroadcastAddress(t)
           \/ CreateCaster(t) \/ SelectFails(t) \/ AcceptFails(t)
  <2>1. /\ UNCHANGED addressVars
        /\ listener[t] # "ended" /\ \E to : listener' = [listener EXCEPT ![t] = to]
        /\ UNCHANGED fault \/ Device(t).ip = Null \/ NoPort(t) \/ call[t].at = "refused"
    BY <1>8 DEF CreateListener, BindTcp, TcpBindFails, Listen, ListenFails,
                BindUdp, NotLocal, UdpFails, NoBroadcastAddress, CreateCaster,
                SelectFails, AcceptFails, Step, Fails, Defined, DefinedUnless
  <2>2. EndedStay
    BY <1>1, <2>1, ListenerMoves
  <2>3. fault' /\ Orderly => fault
    BY <2>1, <1>4 DEF Orderly, MemoryInv, RefusedUnusable
  <2> QED BY <1>6, <2>1, <2>2, <2>3
<1> QED BY <1>5, <1>7, <1>8 DEF ListenerStarts

LEMMA Stutters ==
  ASSUME MemoryInv, UNCHANGED vars
  PROVE  MemoryInv'
<1>1. /\ UNCHANGED <<case, routers, server, main, thread, listener, destroyed, call, addressVars>>
      /\ UNCHANGED <<serving, fault, alive>>
  BY DEF vars, fileVars, threadVars, serverVars, memoryVars, addressVars
<1>2. CASE main \in AllReading
  <2>1. Routers = {} /\ Routers' = {} /\ destroyed' = {}
    BY <1>1, <1>2 DEF MemoryInv, NothingYet, JoinedAll, Routers
  <2>2. Shapes' /\ NothingYet'
    BY <1>1, <1>2 DEF MemoryInv, Shapes, NothingYet
  <2>3. JoinedAll' /\ FaultExplained'
    BY <2>1 DEF JoinedAll, FaultExplained
  <2>4. RefusedUnusable'
    BY <1>1, <1>2 DEF MemoryInv, NothingYet, RefusedUnusable
  <2>5. StrtokAtHome'
    BY <1>1, HomeKept DEF MemoryInv
  <2> QED BY <2>2, <2>3, <2>4, <2>5 DEF MemoryInv
<1>3. CASE main \notin AllReading
  <2>1. RoutersStay /\ EndedStay
    BY <1>1, <1>3, RoutersKept, ListenersKept DEF addressVars
  <2> QED BY <1>1, <1>3, <2>1, StepPreserves DEF MemoryInv, Shapes
<1> QED BY <1>2, <1>3

LEMMA MemoryStep ==
  ASSUME MemoryInv, BufferInv, [Next]_vars
  PROVE  MemoryInv'
BY MainSteps, ServerSteps, RouterSteps, ListenerSteps, Stutters DEF Next

(* If the files name an address for the server and every device, every     *)
(* router, and a port for those with devices, if no message fills the      *)
(* server's buffer and calls of calculate_broadcast_address have not       *)
(* overlapped, no thread uses memory it must not and main does not return  *)
(* as long as every router has a listener left (startRouter, deviceThread, *)
(* destroyRouter, start_server, main): whatever system calls fail and      *)
(* however the threads interleave.  Of the memory, that is, which fault    *)
(* follows: the routes of tables are SharedTable's subject.                *)
THEOREM MemoryIsSafe ==
  Spec => []SafeWhileListening
<1>1. Init => MemoryInv /\ BufferInv
  BY MemoryInit, BufferInit
<1>2. MemoryInv /\ BufferInv /\ [Next]_vars => MemoryInv' /\ BufferInv'
  BY MemoryStep, BufferStep
<1>3. MemoryInv => SafeWhileListening
  BY MemoryInvSuffices
<1> QED BY <1>1, <1>2, <1>3, PTL DEF Spec

-----------------------------------------------------------------------------
(* Types.                                                                  *)

ThreadStates == {"none", "create", "destroy", "free", "ended"}
ListenerStates == {"none", "address", "listen", "broadcast", "spawn", "loop", "ended"}

(* The parts of LifeTypeOK.  What is destroyed and what the buffer holds   *)
(* follows from the two invariants above.                                  *)
ProcessTypeOK ==
  /\ serving \in {"none", "bind", "serve", "ended", "astray"}
  /\ fault \in BOOLEAN /\ alive \in BOOLEAN

ThreadTypeOK == thread \in [Routers -> ThreadStates]

DeviceTypeOK ==
  /\ listener \in [AllDevices -> ListenerStates]
  /\ caster \in [AllDevices -> {"none", "running", "astray"}]
  /\ tcp \in [AllDevices -> {"none", "bound", "listening", "closed"}]
  /\ udp \in [AllDevices -> Dotted \cup {Null}]

TypeInv ==
  /\ MemoryInv /\ BufferInv
  /\ ProcessTypeOK /\ ThreadTypeOK /\ DeviceTypeOK

LEMMA TypeInvSuffices ==
  TypeInv => LifeTypeOK
<1> SUFFICES ASSUME TypeInv PROVE LifeTypeOK
  OBVIOUS
<1>1. main \in {"read server", "read routers", "create", "join",
                "destroy", "destroy server", "return", "ended"}
  BY DEF TypeInv, MemoryInv, Shapes, AllReading, Late
<1>2. destroyed \subseteq Routers
  BY DEF TypeInv, MemoryInv, JoinedAll
<1>3. buffer \in [1..BufferSize -> 0..Len(texts)]
  <2>1. texts \in Seq(Nat) /\ DOMAIN texts = 1..Len(texts) /\ Len(texts) \in Nat
    BY DEF TypeInv, BufferInv
  <2>2. \A b \in 1..BufferSize : buffer[b] \in 0..Len(texts)
    BY <2>1 DEF TypeInv, BufferInv, Newest, Reaching
  <2>3. buffer = [b \in 1..BufferSize |-> buffer[b]]
    BY DEF TypeInv, BufferInv
  <2> QED BY <2>2, <2>3
<1> QED BY <1>1, <1>2, <1>3 DEF TypeInv, ProcessTypeOK, ThreadTypeOK, DeviceTypeOK,
                                ThreadStates, ListenerStates, LifeTypeOK

(* The threads of routers that were not read have no step.                 *)
LEMMA NoRouterYet ==
  ASSUME MemoryInv, main \in AllReading
  PROVE  Routers = {} /\ AllDevices = {}
<1>1. Routers = {}
  BY DEF MemoryInv, NothingYet, Routers
<1>2. \A t \in AllDevices : \E r \in Routers : t \in Devices(r)
  BY Zenon DEF AllDevices
<1> QED BY <1>1, <1>2

LEMMA TypeInit ==
  Init => TypeInv
<1> SUFFICES ASSUME Init PROVE TypeInv
  OBVIOUS
<1>1. MemoryInv
  BY MemoryInit
<1>2. BufferInv
  BY BufferInit
<1>3. ProcessTypeOK
  BY DEF Init, ProcessTypeOK
<1>4. Routers = {} /\ AllDevices = {}
  <2>1. main \in AllReading
    BY DEF Init, AllReading
  <2> QED BY <1>1, <2>1, NoRouterYet
<1>5. thread = <<>> /\ listener = <<>> /\ caster = <<>> /\ tcp = <<>> /\ udp = <<>>
  BY DEF Init
<1>6. \A S : <<>> \in [{} -> S]
  OBVIOUS
<1> QED BY <1>1, <1>2, <1>3, <1>4, <1>5, <1>6 DEF ThreadTypeOK, DeviceTypeOK, TypeInv

LEMMA ThreadTypeKept ==
  ASSUME ThreadTypeOK, UNCHANGED <<routers, thread>>
  PROVE  ThreadTypeOK'
BY DEF ThreadTypeOK, Routers

LEMMA DeviceTypeKept ==
  ASSUME DeviceTypeOK, UNCHANGED <<routers, listener, caster, tcp, udp>>
  PROVE  DeviceTypeOK'
BY DEF DeviceTypeOK, AllDevices, Routers, Devices

(* The steps of the server and of main that only touch the process.        *)
LEMMA ProcessTypeStep ==
  ASSUME TypeInv, [Next]_vars
  PROVE  ProcessTypeOK'
<1> USE DEF TypeInv, ProcessTypeOK
<1>1. CASE MainNext
  BY <1>1 DEF MainNext, ScanServer, ScanRouters, Scan, CloseServerFile, CloseRoutersFile,
              CreateServer, JoinRouters, DestroyRouters, DestroyServer, MainReturns,
              CreateRouter, Defined, Undefined, DefinedUnless, serverVars
<1>2. CASE Exits \/ ServerBinds \/ ServerMisbehaves \/ \E n \in 0..BufferSize : ServerReads(n)
  BY <1>2 DEF Exits, ServerBinds, ServerMisbehaves, ServerReads, Defined, Undefined,
              DefinedUnless, serverVars
<1>3. CASE \E r \in Routers : RouterNext(r)
  BY <1>3 DEF RouterNext, JoinListeners, DestroyRouter, FreeData, Defined, Undefined,
              DefinedUnless, serverVars
<1>4. CASE \E t \in AllDevices \cap Callers :
             \/ CreateListener(t) \/ ListenerStarts(t)
             \/ SelectFails(t) \/ AcceptFails(t) \/ CasterMisbehaves(t)
  BY <1>4 DEF CreateListener, ListenerStarts, SelectFails, AcceptFails, CasterMisbehaves,
              CallAddress, ProceedAddress, BindTcp, TcpBindFails, Listen, ListenFails,
              BindUdp, NotLocal, UdpFails, NoBroadcastAddress, CreateCaster, Step, Fails,
              Defined, Undefined, DefinedUnless, serverVars
<1>5. CASE UNCHANGED vars
  BY <1>5 DEF vars, serverVars, memoryVars
<1> QED BY <1>1, <1>2, <1>3, <1>4, <1>5 DEF Next, ServerNext

(* The last token read, every thread and socket is given its first state.  *)
LEMMA FilesReadTypes ==
  ASSUME CloseRoutersFile
  PROVE  ThreadTypeOK' /\ DeviceTypeOK'
<1>1. /\ thread' = [r \in Routers' |-> "none"]
      /\ listener' = [t \in AllDevices' |-> "none"] /\ caster' = listener' /\ tcp' = listener'
      /\ udp' = [t \in AllDevices' |-> Null]
  BY DEF CloseRoutersFile
<1>2. ThreadTypeOK'
  BY <1>1 DEF ThreadTypeOK, ThreadStates
<1>3. DeviceTypeOK'
  BY <1>1 DEF DeviceTypeOK, ListenerStates
<1> QED BY <1>2, <1>3

(* One router's thread moves on.                                           *)
LEMMA ThreadMoves ==
  ASSUME ThreadTypeOK, NEW r, NEW to \in ThreadStates, UNCHANGED routers,
         thread' = [thread EXCEPT ![r] = to]
  PROVE  ThreadTypeOK'
BY DEF ThreadTypeOK, Routers

(* One device's threads and sockets move on.  BroadcastOf prints whatever  *)
(* it is given, so that the answer of a disturbed call has its type too.   *)
LEMMA DeviceMoves ==
  ASSUME DeviceTypeOK, NEW t \in AllDevices \cap Callers, UNCHANGED routers,
         \/ CreateListener(t) \/ ListenerStarts(t)
         \/ SelectFails(t) \/ AcceptFails(t) \/ CasterMisbehaves(t)
  PROVE  DeviceTypeOK'
<1>1. AllDevices' = AllDevices
  BY DEF AllDevices, Routers, Devices
<1>2. Answer(t) \in Dotted
  BY DEF Answer, BroadcastOf, Printed, Dotted, Octets
<1>3. CASE CreateListener(t) \/ CallAddress(t) \/ ProceedAddress(t) \/ CasterMisbehaves(t)
  BY <1>1, <1>3 DEF CreateListener, CallAddress, ProceedAddress, CasterMisbehaves,
                    DeviceTypeOK, ListenerStates, threadVars, socketVars
<1>4. CASE \/ BindTcp(t) \/ TcpBindFails(t) \/ Listen(t) \/ ListenFails(t) \/ NotLocal(t)
           \/ UdpFails(t) \/ NoBroadcastAddress(t) \/ CreateCaster(t) \/ AcceptFails(t)
  BY <1>1, <1>4 DEF BindTcp, TcpBindFails, Listen, ListenFails, NotLocal, UdpFails,
                    NoBroadcastAddress, CreateCaster, AcceptFails, Step, Fails,
                    DeviceTypeOK, ListenerStates
<1>5. CASE BindUdp(t) \/ SelectFails(t)
  BY <1>1, <1>2, <1>5 DEF BindUdp, SelectFails, Step, DeviceTypeOK, ListenerStates
<1> QED BY <1>3, <1>4, <1>5 DEF ListenerStarts

LEMMA TypeStep ==
  ASSUME TypeInv, [Next]_vars
  PROVE  TypeInv'
<1>1. MemoryInv' /\ BufferInv' /\ ProcessTypeOK'
  BY MemoryStep, BufferStep, ProcessTypeStep DEF TypeInv
<1>2. CASE CloseRoutersFile
  BY <1>1, <1>2, FilesReadTypes DEF TypeInv
<1>3. CASE UNCHANGED <<routers, thread, listener, caster, tcp, udp>>
  BY <1>1, <1>3, ThreadTypeKept, DeviceTypeKept DEF TypeInv
<1>4. CASE MainNext /\ ~CloseRoutersFile
  <2>1. CASE \E r \in Routers : CreateRouter(r)
    <3>1. PICK r \in Routers : CreateRouter(r)
      BY <2>1
    <3>2. /\ UNCHANGED <<routers, listener, caster, tcp, udp>>
          /\ thread' = [thread EXCEPT ![r] = "create"] /\ "create" \in ThreadStates
      BY <3>1 DEF CreateRouter, socketVars, ThreadStates
    <3> QED BY <1>1, <3>2, ThreadMoves, DeviceTypeKept DEF TypeInv
  <2>2. CASE ~\E r \in Routers : CreateRouter(r)
    <3>1. UNCHANGED <<routers, thread, listener, caster, tcp, udp>>
      BY <1>4, <2>2 DEF MainNext, ScanServer, ScanRouters, Scan, CloseServerFile, CreateServer,
                        JoinRouters, DestroyRouters, DestroyServer, MainReturns,
                        threadVars, socketVars
    <3> QED BY <1>3, <3>1
  <2> QED BY <2>1, <2>2
<1>5. CASE Exits \/ ServerNext \/ UNCHANGED vars
  <2>1. UNCHANGED <<routers, thread, listener, caster, tcp, udp>>
    BY <1>5 DEF Exits, ServerNext, ServerBinds, ServerReads, ServerMisbehaves, ServerStep,
                threadVars, socketVars, vars
  <2> QED BY <1>3, <2>1
<1>6. ASSUME NEW r \in Routers, RouterNext(r)
      PROVE  TypeInv'
  <2>1. PICK to \in {"destroy", "free", "ended"} :
           /\ UNCHANGED <<routers, listener, caster, tcp, udp>>
           /\ thread' = [thread EXCEPT ![r] = to]
    BY <1>6 DEF RouterNext, JoinListeners, DestroyRouter, FreeData, socketVars
  <2>2. to \in ThreadStates
    BY DEF ThreadStates
  <2> QED BY <1>1, <2>1, <2>2, ThreadMoves, DeviceTypeKept DEF TypeInv
<1>7. ASSUME NEW t \in AllDevices \cap Callers,
             \/ CreateListener(t) \/ ListenerStarts(t)
             \/ SelectFails(t) \/ AcceptFails(t) \/ CasterMisbehaves(t)
      PROVE  TypeInv'
  <2>1. UNCHANGED <<routers, thread>>
    BY <1>7 DEF CreateListener, ListenerStarts, SelectFails, AcceptFails, CasterMisbehaves,
                CallAddress, ProceedAddress, BindTcp, TcpBindFails, Listen, ListenFails,
                BindUdp, NotLocal, UdpFails, NoBroadcastAddress, CreateCaster, Step, Fails,
                threadVars
  <2>2. DeviceTypeOK'
    BY <1>7, <2>1, DeviceMoves DEF TypeInv
  <2> QED BY <1>1, <2>1, <2>2, ThreadTypeKept DEF TypeInv
<1> QED BY <1>2, <1>4, <1>5, <1>6, <1>7 DEF Next

(* Threads, sockets and the server's buffer are only ever in the states    *)
(* listed (main, startRouter, deviceThread, start_server), for all files,  *)
(* numbers of threads and interleavings.                                   *)
THEOREM LifeTypeCorrect ==
  Spec => []LifeTypeOK
BY TypeInit, TypeStep, TypeInvSuffices, PTL DEF Spec

-----------------------------------------------------------------------------
(* The parser of the routers' file.  Nothing is known of its tokens, so    *)
(* that nothing is known of the values it assigns: only how many routers   *)
(* and devices there are counts.                                           *)

HasDevices(x) == "devices" \in DOMAIN x /\ IsSeq(x.devices)

(* The shape of the parser's variables.                                    *)
ParserShape(p) ==
  /\ DOMAIN p = {"routers", "router", "device", "key", "pending"}
  /\ IsSeq(p.routers)
  /\ \A i \in 1..Len(p.routers) : HasDevices(p.routers[i])

AtNewest(p) ==
  /\ p.router \in {0, Len(p.routers)}
  /\ p.device # 0 =>
       p.router # 0 /\ p.device = Len(p.routers[p.router].devices)

ParserInv(p) == ParserShape(p) /\ AtNewest(p)

LEMMA Appended ==
  ASSUME NEW s, IsSeq(s), NEW x
  PROVE  /\ Len(s) \in Nat /\ IsSeq(Append(s, x)) /\ Len(Append(s, x)) = Len(s) + 1
         /\ Append(s, x)[Len(s) + 1] = x
         /\ \A i \in 1..Len(s) : Append(s, x)[i] = s[i]
<1>1. PICK S : s \in Seq(S)
  BY DEF IsSeq
<1>2. s \in Seq(S \cup {x}) /\ x \in S \cup {x}
  BY <1>1
<1>3. Append(s, x) \in Seq(S \cup {x})
  BY <1>2
<1> QED BY <1>1, <1>2, <1>3 DEF IsSeq

LEMMA SameLength ==
  ASSUME NEW s, IsSeq(s), NEW t, t = [i \in DOMAIN s |-> t[i]]
  PROVE  /\ Len(s) \in Nat /\ DOMAIN s = 1..Len(s)
         /\ IsSeq(t) /\ Len(t) = Len(s)
<1> DEFINE T == {t[i] : i \in DOMAIN s}
<1>1. PICK S : s \in Seq(S)
  BY DEF IsSeq
<1>2. Len(s) \in Nat /\ DOMAIN s = 1..Len(s)
  BY <1>1
<1>3. t \in [DOMAIN s -> T] /\ DOMAIN t = DOMAIN s
  OBVIOUS
<1> HIDE DEF T
<1>4. t \in Seq(T)
  BY <1>1, <1>3
<1>5. Len(t) = Len(s)
  BY <1>2, <1>3, <1>4
<1> QED BY <1>2, <1>4, <1>5 DEF IsSeq

LEMMA ParserStarts ==
  ParserInv(AtStart)
<1>1. /\ DOMAIN AtStart = {"routers", "router", "device", "key", "pending"}
      /\ AtStart.routers = <<>> /\ AtStart.router = 0 /\ AtStart.device = 0
  BY DEF AtStart
<1>2. IsSeq(<<>>) /\ Len(<<>>) = 0
  <2>1. <<>> \in Seq({})
    OBVIOUS
  <2> QED BY <2>1 DEF IsSeq
<1> QED BY <1>1, <1>2 DEF ParserInv, ParserShape, AtNewest

(* Behind OpenRouter a router is open.                                     *)
LEMMA RouterOpened ==
  ASSUME NEW p, ParserInv(p)
  PROVE  ParserInv(OpenRouter(p)) /\ OpenRouter(p).router # 0
<1>1. CASE p.router # 0
  BY <1>1 DEF OpenRouter
<1>2. CASE p.router = 0
  <2> DEFINE q == [p EXCEPT !.routers = Append(@, NewRouter), !.router = Len(p.routers) + 1]
  <2>1. /\ DOMAIN q = {"routers", "router", "device", "key", "pending"}
        /\ q.routers = Append(p.routers, NewRouter) /\ q.router = Len(p.routers) + 1
        /\ q.device = p.device /\ p.device = 0
    BY <1>2 DEF ParserInv, ParserShape, AtNewest
  <2>2. HasDevices(NewRouter)
    <3>1. "devices" \in DOMAIN NewRouter /\ NewRouter.devices = <<>>
      BY DEF NewRouter
    <3>2. <<>> \in Seq({})
      OBVIOUS
    <3> QED BY <3>1, <3>2 DEF HasDevices, IsSeq
  <2>3. /\ Len(p.routers) \in Nat /\ IsSeq(q.routers) /\ Len(q.routers) = Len(p.routers) + 1
        /\ q.routers[Len(p.routers) + 1] = NewRouter
        /\ \A i \in 1..Len(p.routers) : q.routers[i] = p.routers[i]
    BY <2>1, Appended DEF ParserInv, ParserShape
  <2>4. ASSUME NEW i \in 1..Len(q.routers)
        PROVE  HasDevices(q.routers[i])
    <3>1. i \in 1..Len(p.routers) \/ i = Len(p.routers) + 1
      BY <2>3
    <3> QED BY <3>1, <2>2, <2>3 DEF ParserInv, ParserShape
  <2>5. ParserInv(q) /\ q.router # 0
    BY <2>1, <2>3, <2>4 DEF ParserInv, ParserShape, AtNewest
  <2> QED BY <1>2, <2>5 DEF OpenRouter
<1> QED BY <1>1, <1>2

(* A router replaced by another one with a known number of devices.        *)
LEMMA RouterReplaced ==
  ASSUME NEW p, ParserInv(p), p.router # 0, NEW x, HasDevices(x), NEW q,
         DOMAIN q = {"routers", "router", "device", "key", "pending"},
         q.routers = [p.routers EXCEPT ![p.router] = x],
         q.router = p.router, q.device \in {0, Len(x.devices)}
  PROVE  ParserInv(q) /\ q.routers[q.router] = x
<1>1. IsSeq(p.routers) /\ p.router = Len(p.routers)
  BY DEF ParserInv, ParserShape, AtNewest
<1>2. /\ Len(p.routers) \in Nat /\ IsSeq(q.routers) /\ Len(q.routers) = Len(p.routers)
      /\ p.router \in 1..Len(p.routers) => q.routers[p.router] = x
      /\ \A i \in 1..Len(p.routers) : i # p.router => q.routers[i] = p.routers[i]
  <2>1. q.routers = [i \in DOMAIN p.routers |-> q.routers[i]]
    OBVIOUS
  <2>2. /\ Len(p.routers) \in Nat /\ DOMAIN p.routers = 1..Len(p.routers)
        /\ IsSeq(q.routers) /\ Len(q.routers) = Len(p.routers)
    BY <1>1, <2>1, SameLength
  <2> QED BY <2>2
<1>3. p.router \in 1..Len(p.routers)
  BY <1>1, <1>2
<1>4. \A i \in 1..Len(q.routers) : HasDevices(q.routers[i])
  BY <1>2, <1>3 DEF ParserInv, ParserShape
<1> QED BY <1>1, <1>2, <1>3, <1>4 DEF ParserInv, ParserShape, AtNewest

LEMMA NewestIsRouter ==
  ASSUME NEW p, ParserInv(p), p.router # 0
  PROVE  HasDevices(p.routers[p.router]) /\ p.router \in DOMAIN p.routers
<1>1. IsSeq(p.routers) /\ p.router = Len(p.routers)
  BY DEF ParserInv, ParserShape, AtNewest
<1>2. Len(p.routers) \in Nat /\ DOMAIN p.routers = 1..Len(p.routers)
  <2>1. PICK S : p.routers \in Seq(S)
    BY <1>1 DEF IsSeq
  <2> QED BY <2>1
<1>3. p.router \in 1..Len(p.routers)
  BY <1>1, <1>2
<1> QED BY <1>2, <1>3 DEF ParserInv, ParserShape

(* Behind OpenDevice a device is open.                                     *)
LEMMA DeviceOpened ==
  ASSUME NEW p, ParserInv(p), p.router # 0
  PROVE  ParserInv(OpenDevice(p)) /\ OpenDevice(p).router # 0 /\ OpenDevice(p).device # 0
<1>1. CASE p.device # 0
  BY <1>1 DEF OpenDevice
<1>2. CASE p.device = 0
  <2> DEFINE old == p.routers[p.router]
             x == [old EXCEPT !.devices = Append(@, NewDevice)]
             q == [p EXCEPT !.routers[p.router].devices = Append(@, NewDevice),
                            !.device = Len(p.routers[p.router].devices) + 1]
  <2>1. HasDevices(old) /\ p.router \in DOMAIN p.routers
    BY NewestIsRouter
  <2>2. /\ DOMAIN q = {"routers", "router", "device", "key", "pending"}
        /\ q.routers = [p.routers EXCEPT ![p.router] = x]
        /\ q.router = p.router /\ q.device = Len(old.devices) + 1
    BY DEF ParserInv, ParserShape
  <2>3. x.devices = Append(old.devices, NewDevice) /\ "devices" \in DOMAIN x
    BY <2>1 DEF HasDevices
  <2>4. /\ Len(old.devices) \in Nat /\ IsSeq(x.devices)
        /\ Len(x.devices) = Len(old.devices) + 1
    BY <2>1, <2>3, Appended DEF HasDevices
  <2>5. HasDevices(x)
    BY <2>3, <2>4 DEF HasDevices
  <2> HIDE DEF x, q
  <2>6. ParserInv(q)
    BY <2>2, <2>4, <2>5, RouterReplaced
  <2>7. q.router # 0 /\ q.device # 0
    BY <2>2, <2>4
  <2> QED BY <1>2, <2>6, <2>7 DEF OpenDevice, q
<1> QED BY <1>1, <1>2

(* A value changes neither the number of routers nor that of devices, but  *)
(* for the device it opens.                                                *)
LEMMA ValueAssigned ==
  ASSUME NEW p, ParserInv(p), p.router # 0, NEW v
  PROVE  ParserInv(Assign(p, v))
<1>1. CASE p.key = "name" /\ p.device = 0
  <2> DEFINE old == p.routers[p.router]
             x == [old EXCEPT !.name = v, !.table = v]
             q == [p EXCEPT !.routers[p.router].name = v, !.routers[p.router].table = v]
  <2>1. HasDevices(old) /\ p.router \in DOMAIN p.routers
    BY NewestIsRouter
  <2>2. DOMAIN p = {"routers", "router", "device", "key", "pending"}
    BY DEF ParserInv, ParserShape
  <2>3. /\ DOMAIN q = {"routers", "router", "device", "key", "pending"}
        /\ q.routers = [p.routers EXCEPT ![p.router] = x]
        /\ q.router = p.router /\ q.device = p.device
    BY <2>1, <2>2
  <2>4. HasDevices(x)
    BY <2>1 DEF HasDevices
  <2> HIDE DEF x, q
  <2>5. ParserInv(q)
    BY <1>1, <2>3, <2>4, RouterReplaced
  <2> QED BY <1>1, <2>5 DEF Assign, q
<1>2. CASE p.key = "port" /\ p.device = 0
  <2> DEFINE old == p.routers[p.router]
             x == [old EXCEPT !.port = v]
             q == [p EXCEPT !.routers[p.router].port = v]
  <2>1. HasDevices(old)
    BY NewestIsRouter
  <2>2. /\ DOMAIN q = {"routers", "router", "device", "key", "pending"}
        /\ q.routers = [p.routers EXCEPT ![p.router] = x]
        /\ q.router = p.router /\ q.device = p.device
    BY DEF ParserInv, ParserShape
  <2>3. HasDevices(x)
    BY <2>1 DEF HasDevices
  <2> HIDE DEF x, q
  <2>4. ParserInv(q)
    BY <1>2, <2>2, <2>3, RouterReplaced
  <2> QED BY <1>2, <2>4 DEF Assign, q
<1>3. CASE p.key \in {"interface", "ip", "mask"}
  <2> DEFINE o == OpenDevice(p)
             old == o.routers[o.router]
             x == [old EXCEPT !.devices[o.device][p.key] = v]
             q == [o EXCEPT !.routers[o.router].devices[o.device][p.key] = v]
  <2>1. ParserInv(o) /\ o.router # 0
    BY DeviceOpened
  <2> HIDE DEF o
  <2>2. HasDevices(old)
    BY <2>1, NewestIsRouter
  <2>3. /\ DOMAIN q = {"routers", "router", "device", "key", "pending"}
        /\ q.routers = [o.routers EXCEPT ![o.router] = x]
        /\ q.router = o.router /\ q.device = o.device
    BY <2>1 DEF ParserInv, ParserShape
  <2>4. "devices" \in DOMAIN x
    BY <2>2 DEF HasDevices
  <2>5. IsSeq(x.devices) /\ Len(x.devices) = Len(old.devices)
    <3>1. x.devices = [i \in DOMAIN old.devices |-> x.devices[i]]
      BY <2>2 DEF HasDevices
    <3> HIDE DEF x
    <3> QED BY <2>2, <3>1, SameLength DEF HasDevices
  <2>6. HasDevices(x)
    BY <2>4, <2>5 DEF HasDevices
  <2>7. q.device \in {0, Len(x.devices)}
    BY <2>1, <2>3, <2>5 DEF ParserInv, AtNewest
  <2> HIDE DEF x, q
  <2>8. ParserInv(q)
    BY <2>1, <2>3, <2>6, <2>7, RouterReplaced
  <2> QED BY <1>3, <2>8 DEF Assign, q, o
<1>4. CASE /\ ~(p.key = "name" /\ p.device = 0) /\ ~(p.key = "port" /\ p.device = 0)
           /\ p.key \notin {"interface", "ip", "mask"}
  BY <1>4 DEF Assign
<1> QED BY <1>1, <1>2, <1>3, <1>4

(* Nothing but the key and what is awaited changes.                        *)
LEMMA OnlyKey ==
  ASSUME NEW p, ParserInv(p), NEW q, DOMAIN q = DOMAIN p,
         q.routers = p.routers, q.router = p.router, q.device = p.device
  PROVE  ParserInv(q)
BY DEF ParserInv, ParserShape, AtNewest

LEMMA TokenScanned ==
  ASSUME NEW p, ParserInv(p), NEW token
  PROVE  ParserInv(ScanToken(p, token))
<1> USE DEF ParserInv, ParserShape
<1>1. ParserInv(OnKey(p, token))
  BY OnlyKey DEF OnKey
<1>2. ParserInv(OnValue(p, token))
  <2> DEFINE q == OpenRouter(p)
             r == IF token.type = "SCALAR" THEN Assign(q, token.value) ELSE q
  <2>1. ParserInv(q) /\ q.router # 0
    BY RouterOpened
  <2> HIDE DEF q
  <2>2. ParserInv(r)
    BY <2>1, ValueAssigned
  <2> HIDE DEF r
  <2>3. ParserInv([r EXCEPT !.key = Null, !.pending = "none"])
    BY <2>2, OnlyKey
  <2> QED BY <2>3 DEF OnValue, q, r
<1>3. ParserInv(OnBlockEnd(p))
  BY DEF OnBlockEnd, AtNewest
<1>4. ParserInv(Awaits(p, token))
  BY OnlyKey DEF Awaits
<1> HIDE DEF ParserInv, ParserShape
<1> QED BY <1>1, <1>2, <1>3, <1>4 DEF ScanToken

(* The routers' file is read with the parser's variables in order.         *)
ReadingInv == main = "read routers" => ParserInv(reading)

LEMMA ReadingStep ==
  ASSUME ReadingInv, [Next]_vars
  PROVE  ReadingInv'
<1>1. CASE ScanRouters
  <2>1. /\ main = "read routers" /\ main' = main
        /\ reading' = reading \/ \E token : reading' = ScanToken(reading, token)
    BY <1>1 DEF ScanRouters, Scan, threadVars
  <2> QED BY <2>1, TokenScanned DEF ReadingInv
<1>2. CASE CloseServerFile
  BY <1>2, ParserStarts DEF CloseServerFile, ReadingInv
<1>3. CASE ScanServer
  BY <1>3 DEF ScanServer, Scan, threadVars, ReadingInv
<1>4. CASE CloseRoutersFile
  BY <1>4 DEF CloseRoutersFile, ReadingInv
<1>5. CASE \/ CreateServer \/ JoinRouters \/ DestroyRouters \/ DestroyServer \/ MainReturns
           \/ \E r \in Routers : CreateRouter(r)
  BY <1>5 DEF CreateServer, JoinRouters, DestroyRouters, DestroyServer, MainReturns,
              CreateRouter, ReadingInv
<1>6. CASE Exits \/ ServerNext \/ \E r \in Routers : RouterNext(r)
  <2>1. UNCHANGED <<main, reading>>
    BY <1>6 DEF Exits, ServerNext, ServerBinds, ServerReads, ServerMisbehaves, ServerStep,
                RouterNext, JoinListeners, DestroyRouter, FreeData, threadVars, fileVars
  <2> QED BY <2>1 DEF ReadingInv
<1>7. CASE \E t \in AllDevices \cap Callers :
             \/ CreateListener(t) \/ ListenerStarts(t)
             \/ SelectFails(t) \/ AcceptFails(t) \/ CasterMisbehaves(t)
  <2>1. UNCHANGED <<main, reading>>
    BY <1>7 DEF CreateListener, ListenerStarts, SelectFails, AcceptFails, CasterMisbehaves,
                CallAddress, ProceedAddress, BindTcp, TcpBindFails, Listen, ListenFails,
                BindUdp, NotLocal, UdpFails, NoBroadcastAddress, CreateCaster, Step, Fails,
                threadVars, fileVars
  <2> QED BY <2>1 DEF ReadingInv
<1>8. CASE UNCHANGED vars
  BY <1>8 DEF vars, threadVars, fileVars, ReadingInv
<1> QED BY <1>1, <1>2, <1>3, <1>4, <1>5, <1>6, <1>7, <1>8 DEF Next, MainNext

(* Whatever the tokens of the routers' file, in whatever order and however *)
(* many, the parser's indices are those of the newest router and device    *)
(* (parse_yaml_file_to_router).                                            *)
THEOREM ParserStaysInBounds ==
  Spec => []IndicesOfNewest
<1>1. Init => ReadingInv
  BY DEF Init, ReadingInv
<1>2. ReadingInv => IndicesOfNewest
  BY DEF ReadingInv, ParserInv, AtNewest, IndicesOfNewest
<1> QED BY <1>1, <1>2, ReadingStep, PTL DEF Spec

-----------------------------------------------------------------------------
(* How far a file is read: the tokens behind and those that are left.      *)

LEMMA HeadAndTail ==
  ASSUME NEW left, IsSeq(left), left # <<>>
  PROVE  IsSeq(Tail(left)) /\ left = <<Head(left)>> \o Tail(left)
<1>1. PICK S : left \in Seq(S)
  BY DEF IsSeq
<1>2. /\ Tail(left) \in Seq(S) /\ Len(Tail(left)) = Len(left) - 1 /\ Len(left) \in Nat \ {0}
      /\ \A i \in 1..Len(Tail(left)) : Tail(left)[i] = left[i + 1]
      /\ Head(left) = left[1]
  <2>1. Len(left) \in Nat /\ Len(left) # 0
    BY <1>1, EmptySeq
  <2> QED BY <1>1, <2>1, HeadTailProperties
<1>3. IsSeq(Tail(left))
  BY <1>2 DEF IsSeq
<1> DEFINE h == <<Head(left)>>
           t == Tail(left)
           w == h \o t
<1>4. IsSeq(h) /\ Len(h) = 1 /\ h[1] = left[1]
  BY <1>2, OneElement
<1>10. IsSeq(t) /\ \A i \in 1..Len(t) : t[i] = left[i + 1]
  BY <1>2, <1>3
<1> HIDE DEF h, t
<1>5. /\ IsSeq(w) /\ Len(w) = 1 + Len(t) /\ w[1] = left[1]
      /\ \A i \in 1..Len(t) : w[1 + i] = left[i + 1]
  <2>1. /\ IsSeq(w) /\ Len(w) = Len(h) + Len(t)
        /\ \A i \in 1..Len(h) : w[i] = h[i]
        /\ \A i \in 1..Len(t) : w[Len(h) + i] = t[i]
    <3>1. IsSeq(h) /\ IsSeq(t)
      BY <1>4, <1>10
    <3> QED BY <3>1, JoinFacts
  <2> HIDE DEF w
  <2>2. 1 \in 1..1
    OBVIOUS
  <2> QED BY <1>4, <1>10, <2>1, <2>2
<1> HIDE DEF w
<1>6. Len(t) = Len(left) - 1 /\ Len(left) \in Nat \ {0}
  BY <1>2 DEF t
<1>7. Len(w) = Len(left)
  BY <1>5, <1>6
<1>8. ASSUME NEW i \in 1..Len(w)
      PROVE  w[i] = left[i]
  <2>1. CASE i = 1
    BY <1>5, <2>1
  <2>2. CASE i # 1
    <3>1. i - 1 \in 1..Len(t) /\ 1 + (i - 1) = i /\ (i - 1) + 1 = i
      BY <1>6, <1>7, <2>2
    <3> QED BY <1>5, <3>1
  <2> QED BY <2>1, <2>2
<1>9. w = left
  BY <1>5, <1>7, <1>8, SameElements
<1> QED BY <1>3, <1>9 DEF w, h, t

(* One more token is read.                                                 *)
LEMMA ReadOn ==
  ASSUME NEW file, NEW start, NEW tokens, NEW s, IsSeq(s), NEW left, IsSeq(left), left # <<>>,
         s \o left = tokens, NEW p, Reads(file, start, s, p),
         NEW q, Moves(file, p, Head(left), q)
  PROVE  \E t : /\ IsSeq(t) /\ IsSeq(Tail(left)) /\ t \o Tail(left) = tokens
                /\ Reads(file, start, t, q)
<1> DEFINE h == <<Head(left)>>
           rest == Tail(left)
           t == s \o h
<1>1. IsSeq(rest) /\ left = h \o rest
  BY HeadAndTail
<1>2. IsSeq(h)
  BY OneElement
<1>3. Reads(file, start, t, q)
  BY ReadsMore
<1> HIDE DEF h, rest
<1>4. IsSeq(t)
  BY <1>2, JoinFacts
<1>5. t \o rest = tokens
  <2>1. IsSeq(rest)
    BY <1>1
  <2>2. (s \o h) \o rest = s \o (h \o rest)
    BY <1>2, <2>1, JoinedTwice
  <2>3. s \o left = tokens
    OBVIOUS
  <2> QED BY <1>1, <2>2, <2>3
<1> HIDE DEF t
<1> QED BY <1>1, <1>3, <1>4, <1>5 DEF rest

(* Where the first of the tokens left stands.                              *)
LEMMA NextToken ==
  ASSUME NEW s, IsSeq(s), NEW left, IsSeq(left), left # <<>>
  PROVE  /\ Len(s) + 1 \in 1..Len(s \o left) /\ (s \o left)[Len(s) + 1] = Head(left)
         /\ Len(s) \in Nat
<1> DEFINE w == s \o left
<1>1. Len(left) \in Nat /\ Len(left) # 0 /\ left[1] = Head(left)
  BY EmptySeq DEF IsSeq
<1>2. /\ Len(s) \in Nat /\ Len(w) = Len(s) + Len(left)
      /\ \A i \in 1..Len(left) : w[Len(s) + i] = left[i]
  BY SeqFacts, JoinFacts
<1> HIDE DEF w
<1>3. 1 \in 1..Len(left) /\ Len(s) + 1 \in 1..Len(w)
  BY <1>1, <1>2
<1>4. w[Len(s) + 1] = Head(left)
  BY <1>1, <1>2, <1>3
<1> QED BY <1>2, <1>3, <1>4 DEF w

(* Behind a syntax error there is no end.                                  *)
LEMMA NoEnd ==
  ASSUME NEW tokens, Inner(tokens), NEW s, IsSeq(s), NEW left, IsSeq(left), left # <<>>,
         s \o left = tokens
  PROVE  Head(left).type # "STREAM_END"
BY NextToken DEF Inner

LEMMA CutIsInner ==
  ASSUME NEW body, Inner(body), NEW x, NEW n \in 0..Len(body)
  PROVE  Inner(SubSeq(body \o <<x>>, 1, n))
<1> DEFINE w == body \o <<x>>
<1>1. /\ IsSeq(body) /\ Len(body) \in Nat /\ IsSeq(w) /\ Len(w) = Len(body) + 1
      /\ \A i \in 1..Len(body) : w[i] = body[i]
  BY SeqFacts, OneElement, JoinFacts DEF Inner
<1> HIDE DEF w
<1>2. n \in 0..Len(w) /\ \A i \in 1..n : i \in 1..Len(body)
  BY <1>1
<1>3. /\ IsSeq(First(w, n)) /\ Len(First(w, n)) = n
      /\ \A i \in 1..n : First(w, n)[i] = w[i]
  BY <1>1, <1>2, FirstFacts
<1>4. Inner(First(w, n))
  BY <1>1, <1>2, <1>3 DEF Inner
<1> QED BY <1>4 DEF w, First

(* At the end of the file all of it is read.                               *)
LEMMA EndReached ==
  ASSUME NEW body, Inner(body), NEW x, NEW s, IsSeq(s), NEW left, IsSeq(left), left # <<>>,
         s \o left = body \o <<x>>, Head(left).type = "STREAM_END"
  PROVE  s = body
<1> DEFINE w == body \o <<x>>
<1>1. /\ IsSeq(body) /\ Len(body) \in Nat /\ Len(w) = Len(body) + 1
      /\ \A i \in 1..Len(body) : w[i] = body[i]
  BY SeqFacts, OneElement, JoinFacts DEF Inner
<1>2. /\ Len(s) \in Nat /\ Len(s) + 1 \in 1..Len(w) /\ w[Len(s) + 1] = Head(left)
  BY NextToken
<1>3. \A i \in 1..Len(s) : w[i] = s[i]
  BY JoinFacts
<1> HIDE DEF w
<1>4. Len(s) + 1 \notin 1..Len(body)
  BY <1>1, <1>2 DEF Inner
<1>5. Len(s) = Len(body)
  BY <1>1, <1>2, <1>4
<1> QED BY <1>1, <1>3, <1>5, SameElements

-----------------------------------------------------------------------------
(* The two files, as far as they are read.                                 *)

ReadSoFar(file, start, tokens) ==
  \E s : /\ IsSeq(s) /\ IsSeq(files[file]) /\ s \o files[file] = tokens
         /\ Reads(file, start, s, reading)

DocumentRead(list, document) ==
  /\ AllOf(list) = AllOf(RoutersWritten(document))
  /\ document # <<>> /\ AllInOrder(document) => list = RoutersWritten(document)

FilesInv ==
  /\ case \in Cases /\ main \in AllReading \cup {"create", "join"} \cup Late
  /\ DOMAIN files = {"server", "routers"}
  /\ main = "read server" =>
       /\ files.routers = Tokens(case).routers
       /\ alive => ReadSoFar("server", AtServerStart, Tokens(case).server)
  /\ main = "read routers" /\ alive => ReadSoFar("routers", AtStart, Tokens(case).routers)
  /\ main # "read server" => server = ServerWritten(case.server)
  /\ main \notin AllReading => DocumentRead(routers, case.routers)

LEMMA FilesInvSuffices ==
  FilesInv => FilesReadAsWritten /\ NoDeviceLost
BY DEF FilesInv, FilesReadAsWritten, NoDeviceLost, DocumentRead, AllReading, AllInOrder

LEMMA BodyIsInner ==
  ASSUME NEW key, NEW value, Inner(value)
  PROVE  Inner(Body(key, value)) /\ Len(Body(key, value)) # 0
<1> DEFINE start == <<Token("STREAM_START")>>
           block == Block("BLOCK_MAPPING_START", Pair(key, value))
<1>1. Inner(start)
  BY InnerOne DEF Token
<1>2. Inner(block)
  BY InnerPair, InnerBlock
<1>3. IsSeq(start) /\ Len(start) = 1
  BY OneElement
<1> HIDE DEF start, block
<1>4. Inner(start \o block)
  BY <1>1, <1>2, InnerBoth
<1>5. Len(start \o block) = 1 + Len(block) /\ Len(block) \in Nat
  <2>1. IsSeq(block) /\ Len(block) \in Nat
    BY <1>2, SeqFacts DEF Inner
  <2>2. Len(start \o block) = Len(start) + Len(block)
    BY <1>3, <2>1, JoinFacts
  <2> QED BY <1>3, <2>1, <2>2
<1> QED BY <1>4, <1>5 DEF Body, start, block

(* The tokens of the files of a case, and those but for the end.           *)
LEMMA ServerFileTokens ==
  ASSUME NEW c \in Cases
  PROVE  /\ IsServer(c.server)
         /\ Inner(Body("server", ServerTokens(c.server)))
         /\ Tokens(c).server =
              Body("server", ServerTokens(c.server)) \o <<Token("STREAM_END")>>
<1>1. IsServer(c.server)
  BY FilesAssumption
<1>2. Inner(ServerTokens(c.server))
  <2>1. IsMapping(c.server)
    BY <1>1 DEF IsServer
  <2> QED BY <2>1, ServerIsInner
<1>3. Inner(Body("server", ServerTokens(c.server)))
  BY <1>2, BodyIsInner
<1>4. Tokens(c).server = ServerFile(c.server)
  BY DEF Tokens
<1>5. ServerFile(c.server) = Body("server", ServerTokens(c.server)) \o <<Token("STREAM_END")>>
  BY DEF ServerFile, File, Body
<1> QED BY <1>1, <1>3, <1>4, <1>5

LEMMA RouterFileTokens ==
  ASSUME NEW c \in Cases
  PROVE  LET body == Body("routers", Items(c.routers, RouterTokens))
         IN /\ IsDocument(c.routers) /\ Inner(body)
            /\ Inner(Tokens(c).routers) \/ Tokens(c).routers = body \o <<Token("STREAM_END")>>
            /\ IsSeq(Tokens(c).routers)
<1> DEFINE body == Body("routers", Items(c.routers, RouterTokens))
           end == <<Token("STREAM_END")>>
           all == RoutersFile(c.routers)
<1>1. IsDocument(c.routers)
  BY FilesAssumption
<1>2. Inner(body) /\ Len(body) # 0
  <2>1. Inner(Items(c.routers, RouterTokens))
    BY <1>1, DocumentIsInner
  <2> QED BY <2>1, BodyIsInner
<1>3. all = body \o end
  BY DEF RoutersFile, File, Body
<1>4. IsSeq(body) /\ IsSeq(body \o end) /\ Len(body \o end) = Len(body) + 1 /\ Len(body) \in Nat
  BY <1>2, SeqFacts, OneElement, JoinFacts DEF Inner
<1> HIDE DEF body, all
<1>5. CASE c.readable
  <2>1. Tokens(c).routers = all
    BY <1>5 DEF Tokens, all
  <2> QED BY <2>1, <1>1, <1>2, <1>3, <1>4 DEF body
<1>6. CASE ~c.readable
  <2> DEFINE n == Len(all) \div 2
  <2>1. Tokens(c).routers = SubSeq(all, 1, n)
    BY <1>6 DEF Tokens, all
  <2>2. n \in 0..Len(body)
    BY <1>2, <1>3, <1>4
  <2> HIDE DEF n
  <2>3. Inner(SubSeq(body \o end, 1, n))
    BY <1>2, <2>2, CutIsInner
  <2>4. Inner(Tokens(c).routers)
    BY <2>1, <2>3, <1>3
  <2> QED BY <2>4, <1>1, <1>2 DEF body, Inner
<1> QED BY <1>5, <1>6

LEMMA NothingReadYet ==
  ASSUME NEW file, NEW start, NEW tokens, IsSeq(tokens)
  PROVE  \E s : IsSeq(s) /\ s \o tokens = tokens /\ Reads(file, start, s, start)
<1> DEFINE none == <<>>
<1>1. IsSeq(none) /\ none \o tokens = tokens /\ Reads(file, start, none, start)
  BY NoElements, JoinedNothing, ReadsNothing
<1> HIDE DEF none
<1> QED BY <1>1

-----------------------------------------------------------------------------
(* The steps that read.                                                    *)

LEMMA FilesInit ==
  Init => FilesInv
<1> SUFFICES ASSUME Init PROVE FilesInv
  OBVIOUS
<1>1. /\ case \in Cases /\ main = "read server" /\ files = Tokens(case)
      /\ reading = AtServerStart
  BY DEF Init
<1>2. DOMAIN Tokens(case) = {"server", "routers"}
  BY DEF Tokens
<1>3. IsSeq(Tokens(case).server)
  <2> DEFINE body == Body("server", ServerTokens(case.server))
             end == <<Token("STREAM_END")>>
  <2>1. Inner(body) /\ Tokens(case).server = body \o end
    BY <1>1, ServerFileTokens
  <2>2. IsSeq(body) /\ IsSeq(end)
    BY <2>1, OneElement DEF Inner
  <2> HIDE DEF body, end
  <2> QED BY <2>1, <2>2, JoinFacts
<1>4. ReadSoFar("server", AtServerStart, Tokens(case).server)
  BY <1>1, <1>3, NothingReadYet DEF ReadSoFar
<1> QED BY <1>1, <1>2, <1>4 DEF FilesInv, AllReading

(* Neither parser uses the scalar of a token without one, unless it dies.  *)
LEMMA ScanReads ==
  ASSUME NEW file, NEW start, NEW tokens, file \in DOMAIN files,
         ReadSoFar(file, start, tokens), files[file] # <<>>,
         files' = [files EXCEPT ![file] = Tail(@)],
         Moves(file, reading, Head(files[file]), reading')
  PROVE  ReadSoFar(file, start, tokens)'
<1> DEFINE left == files[file]
<1>1. PICK s : /\ IsSeq(s) /\ IsSeq(left) /\ s \o left = tokens
               /\ Reads(file, start, s, reading)
  BY DEF ReadSoFar
<1>2. left # <<>> /\ Moves(file, reading, Head(left), reading') /\ files'[file] = Tail(left)
  OBVIOUS
<1> HIDE DEF left
<1>3. \E t : /\ IsSeq(t) /\ IsSeq(Tail(left)) /\ t \o Tail(left) = tokens
             /\ Reads(file, start, t, reading')
  BY <1>1, <1>2, ReadOn
<1> QED BY <1>2, <1>3 DEF ReadSoFar

LEMMA ServerScanned ==
  ASSUME FilesInv, ScanServer
  PROVE  FilesInv'
<1>1. /\ alive /\ main = "read server" /\ main' = main /\ case' = case
      /\ files.server # <<>> /\ files' = [files EXCEPT !["server"] = Tail(@)]
      /\ alive' => Moves("server", reading, Head(files["server"]), reading')
  <2>1. /\ alive /\ main = "read server" /\ main' = main /\ case' = case
        /\ files.server # <<>> /\ files' = [files EXCEPT !["server"] = Tail(@)]
    BY DEF ScanServer, Scan, threadVars
  <2>2. CASE NoServerValue(reading, Head(files["server"]))
    <3>1. alive' = FALSE
      BY <2>2 DEF ScanServer, Scan
    <3> QED BY <2>1, <3>1
  <2>3. CASE ~NoServerValue(reading, Head(files["server"]))
    <3>1. reading' = ScanServerToken(reading, Head(files["server"]))
      BY <2>3 DEF ScanServer, Scan
    <3> QED BY <2>1, <2>3, <3>1 DEF Moves
  <2> QED BY <2>2, <2>3
<1>2. DOMAIN files' = DOMAIN files /\ files'.routers = files.routers
  BY <1>1 DEF FilesInv
<1>3. alive' => ReadSoFar("server", AtServerStart, Tokens(case).server)'
  <2> SUFFICES ASSUME alive' PROVE ReadSoFar("server", AtServerStart, Tokens(case).server)'
    OBVIOUS
  <2>1. /\ ReadSoFar("server", AtServerStart, Tokens(case).server)
        /\ "server" \in DOMAIN files /\ files["server"] # <<>>
        /\ Tokens(case)' = Tokens(case)
    BY <1>1 DEF FilesInv
  <2> DEFINE tokens == Tokens(case).server
             start == AtServerStart
  <2>2. ReadSoFar("server", start, tokens)
    BY <2>1
  <2>3. tokens' = tokens /\ start' = start
    BY <2>1
  <2> HIDE DEF tokens, start
  <2>4. ReadSoFar("server", start, tokens)'
    BY <1>1, <2>1, <2>2, <2>3, ScanReads
  <2> QED BY <2>4 DEF tokens, start
<1> QED BY <1>1, <1>2, <1>3 DEF FilesInv, AllReading

LEMMA RoutersScanned ==
  ASSUME FilesInv, ScanRouters
  PROVE  FilesInv'
<1>1. /\ alive /\ main = "read routers" /\ main' = main /\ case' = case /\ server' = server
      /\ files.routers # <<>> /\ files' = [files EXCEPT !["routers"] = Tail(@)]
      /\ alive' => Moves("routers", reading, Head(files["routers"]), reading')
  <2>1. /\ alive /\ main = "read routers" /\ main' = main /\ case' = case /\ server' = server
        /\ files.routers # <<>> /\ files' = [files EXCEPT !["routers"] = Tail(@)]
    BY DEF ScanRouters, Scan, threadVars
  <2>2. CASE NoValue(reading, Head(files["routers"]))
    <3>1. alive' = FALSE
      BY <2>2 DEF ScanRouters, Scan
    <3> QED BY <2>1, <3>1
  <2>3. CASE ~NoValue(reading, Head(files["routers"]))
    <3>1. reading' = ScanToken(reading, Head(files["routers"]))
      BY <2>3 DEF ScanRouters, Scan
    <3> QED BY <2>1, <2>3, <3>1 DEF Moves
  <2> QED BY <2>2, <2>3
<1>2. DOMAIN files' = DOMAIN files
  BY <1>1 DEF FilesInv
<1>3. alive' => ReadSoFar("routers", AtStart, Tokens(case).routers)'
  <2> SUFFICES ASSUME alive' PROVE ReadSoFar("routers", AtStart, Tokens(case).routers)'
    OBVIOUS
  <2>1. /\ ReadSoFar("routers", AtStart, Tokens(case).routers)
        /\ "routers" \in DOMAIN files /\ files["routers"] # <<>>
        /\ Tokens(case)' = Tokens(case)
    BY <1>1 DEF FilesInv
  <2> DEFINE tokens == Tokens(case).routers
             start == AtStart
  <2>2. ReadSoFar("routers", start, tokens)
    BY <2>1
  <2>3. tokens' = tokens /\ start' = start
    BY <2>1
  <2> HIDE DEF tokens, start
  <2>4. ReadSoFar("routers", start, tokens)'
    BY <1>1, <2>1, <2>2, <2>3, ScanReads
  <2> QED BY <2>4 DEF tokens, start
<1> QED BY <1>1, <1>2, <1>3 DEF FilesInv, AllReading

(* At the end of either file the parser has read the whole of it.          *)
LEMMA ServerFileClosed ==
  ASSUME FilesInv, CloseServerFile
  PROVE  FilesInv'
<1> DEFINE body == Body("server", ServerTokens(case.server))
<1>1. /\ alive /\ main = "read server" /\ main' = "read routers" /\ alive' = alive
      /\ case' = case /\ files' = files /\ server' = reading.server /\ reading' = AtStart
      /\ files["server"] # <<>> /\ Head(files["server"]).type = "STREAM_END"
  BY DEF CloseServerFile, AtEnd, Defined
<1>2. case \in Cases
  BY DEF FilesInv
<1>3. /\ IsServer(case.server) /\ Inner(body)
      /\ Tokens(case).server = body \o <<Token("STREAM_END")>>
  BY <1>2, ServerFileTokens
<1> HIDE DEF body
<1>4. PICK s : /\ IsSeq(s) /\ IsSeq(files["server"]) /\ s \o files["server"] = Tokens(case).server
               /\ Reads("server", AtServerStart, s, reading)
  BY <1>1 DEF FilesInv, ReadSoFar
<1>5. s = body
  BY <1>1, <1>3, <1>4, EndReached
<1>6. reading.server = ServerWritten(case.server)
  BY <1>3, <1>4, <1>5, ServerRead DEF body
<1>7. files["routers"] = Tokens(case).routers /\ IsSeq(Tokens(case).routers)
  BY <1>1, <1>2, RouterFileTokens DEF FilesInv
<1>8. ReadSoFar("routers", AtStart, Tokens(case).routers)'
  <2>1. Tokens(case)' = Tokens(case)
    BY <1>1
  <2>2. files'["routers"] = Tokens(case).routers
    BY <1>1, <1>7
  <2> DEFINE tokens == Tokens(case).routers
  <2>3. tokens' = tokens /\ files'["routers"] = tokens /\ IsSeq(tokens)
    BY <2>1, <2>2, <1>7
  <2> HIDE DEF tokens
  <2>4. \E t : IsSeq(t) /\ t \o tokens = tokens /\ Reads("routers", AtStart, t, AtStart)
    BY <2>3, NothingReadYet
  <2>5. ReadSoFar("routers", AtStart, tokens)'
    BY <1>1, <2>3, <2>4 DEF ReadSoFar
  <2> QED BY <2>5 DEF tokens
<1> QED BY <1>1, <1>6, <1>8 DEF FilesInv, AllReading

LEMMA RoutersFileClosed ==
  ASSUME FilesInv, CloseRoutersFile
  PROVE  FilesInv'
<1> DEFINE body == Body("routers", Items(case.routers, RouterTokens))
<1>1. /\ alive /\ main = "read routers" /\ main' = "create"
      /\ case' = case /\ files' = files /\ server' = server /\ routers' = reading.routers
      /\ files["routers"] # <<>> /\ Head(files["routers"]).type = "STREAM_END"
  BY DEF CloseRoutersFile, AtEnd
<1>2. case \in Cases
  BY DEF FilesInv
<1>3. /\ IsDocument(case.routers) /\ Inner(body)
      /\ Inner(Tokens(case).routers) \/ Tokens(case).routers = body \o <<Token("STREAM_END")>>
  BY <1>2, RouterFileTokens
<1> HIDE DEF body
<1>4. PICK s : /\ IsSeq(s) /\ IsSeq(files["routers"])
               /\ s \o files["routers"] = Tokens(case).routers
               /\ Reads("routers", AtStart, s, reading)
  BY <1>1 DEF FilesInv, ReadSoFar
<1>5. ~Inner(Tokens(case).routers)
  BY <1>1, <1>4, NoEnd
<1>6. s = body
  BY <1>1, <1>3, <1>4, <1>5, EndReached
<1>7. DocumentRead(reading.routers, case.routers)
  BY <1>3, <1>4, <1>6, RoutersRead DEF body, DocumentRead
<1> QED BY <1>1, <1>7 DEF FilesInv, AllReading

(* All other steps come later or leave what is read alone.                 *)
LEMMA FilesKept ==
  ASSUME FilesInv, UNCHANGED <<case, files, reading, server, routers>>,
         main' \in AllReading \cup {"create", "join"} \cup Late,
         main' = main \/ (main \notin AllReading /\ main' \notin AllReading),
         main \in AllReading => (alive' => alive)
  PROVE  FilesInv'
<1>1. Tokens(case)' = Tokens(case)
  OBVIOUS
<1>2. main' = "read server" /\ alive' => ReadSoFar("server", AtServerStart, Tokens(case).server)'
  BY <1>1 DEF ReadSoFar, FilesInv, AllReading
<1>3. main' = "read routers" /\ alive' => ReadSoFar("routers", AtStart, Tokens(case).routers)'
  BY <1>1 DEF ReadSoFar, FilesInv, AllReading
<1> QED BY <1>1, <1>2, <1>3 DEF FilesInv, AllReading

LEMMA FilesStep ==
  ASSUME FilesInv, MemoryInv, BufferInv, [Next]_vars
  PROVE  FilesInv'
<1>1. CASE ScanServer \/ CloseServerFile \/ ScanRouters \/ CloseRoutersFile
  BY <1>1, ServerScanned, ServerFileClosed, RoutersScanned, RoutersFileClosed
<1>2. ASSUME UNCHANGED <<case, files, reading, server, routers>>,
             main' = main \/ (main \notin AllReading /\ main' \notin AllReading),
             main \in AllReading => (alive' => alive)
      PROVE  FilesInv'
  <2>1. main' \in AllReading \cup {"create", "join"} \cup Late
    BY MemoryStep DEF MemoryInv, Shapes
  <2> QED BY <1>2, <2>1, FilesKept
<1>3. CASE \/ CreateServer \/ JoinRouters \/ DestroyRouters \/ DestroyServer \/ MainReturns
           \/ \E r \in Routers : CreateRouter(r)
  <2>1. /\ UNCHANGED <<case, files, reading, server, routers>>
        /\ main \notin AllReading /\ main' \notin AllReading
    BY <1>3 DEF CreateServer, JoinRouters, DestroyRouters, DestroyServer, MainReturns,
                CreateRouter, fileVars, AllReading
  <2> QED BY <1>2, <2>1
<1>4. CASE Exits \/ ServerNext \/ \E r \in Routers : RouterNext(r)
  <2>1. UNCHANGED <<case, files, reading, server, routers, main>> /\ alive
    BY <1>4 DEF Exits, ServerNext, ServerBinds, ServerReads, ServerMisbehaves, ServerStep,
                RouterNext, JoinListeners, DestroyRouter, FreeData, threadVars, fileVars
  <2> QED BY <1>2, <2>1
<1>5. CASE \E t \in AllDevices \cap Callers :
             \/ CreateListener(t) \/ ListenerStarts(t)
             \/ SelectFails(t) \/ AcceptFails(t) \/ CasterMisbehaves(t)
  <2>1. UNCHANGED <<case, files, reading, server, routers, main>> /\ alive
    BY <1>5 DEF CreateListener, ListenerStarts, SelectFails, AcceptFails, CasterMisbehaves,
                CallAddress, ProceedAddress, BindTcp, TcpBindFails, Listen, ListenFails,
                BindUdp, NotLocal, UdpFails, NoBroadcastAddress, CreateCaster, Step, Fails,
                threadVars, fileVars
  <2> QED BY <1>2, <2>1
<1>6. CASE UNCHANGED vars
  <2>1. UNCHANGED <<case, files, reading, server, routers, main, alive>>
    BY <1>6 DEF vars, threadVars, fileVars, memoryVars
  <2> QED BY <1>2, <2>1
<1> QED BY <1>1, <1>3, <1>4, <1>5, <1>6 DEF Next, MainNext

LEMMA FilesCorrect ==
  Spec => []FilesInv
BY FilesInit, MemoryInit, BufferInit, FilesStep, MemoryStep, BufferStep, PTL DEF Spec

(* Files in the form README.md gives, with some router, are read as they   *)
(* are written (parse_yaml_file_to_server, parse_yaml_file_to_router), for *)
(* every number of routers, devices and keys, every order of the keys but  *)
(* the devices, every value, and lists that are empty or missing.          *)
THEOREM ReadAsWritten ==
  Spec => []FilesReadAsWritten
BY FilesCorrect, FilesInvSuffices, PTL

(* Whatever the order of the keys every device of a file is read once,     *)
(* with all its fields and in the order of the file, though perhaps into   *)
(* another router (parse_yaml_file_to_router).                             *)
THEOREM DevicesAreKept ==
  Spec => []NoDeviceLost
BY FilesCorrect, FilesInvSuffices, PTL

=============================================================================
