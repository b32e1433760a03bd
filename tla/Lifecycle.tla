------------------------------ MODULE Lifecycle ------------------------------
(***************************************************************************)
(* The process from main to its end: reading the two files, creating the   *)
(* threads of routers, devices and server, the sockets of every device,    *)
(* and what happens to the memory the threads share when listeners end.    *)
(*                                                                         *)
(* What listeners and broadcasters do once they run is in RouteExchange,   *)
(* SharedTable and Forwarding.  A device is <<r, d>>, the d-th device of   *)
(* the r-th router read from the file.  When a thread uses memory it must  *)
(* not, fault is set and the process dies or goes on, as it happens: what  *)
(* was destroyed, a field that was never assigned, a null address, the     *)
(* stack of a call that has returned, bytes behind an array.  The routes   *)
(* of a table are SharedTable's subject and not looked at here.            *)
(***************************************************************************)
EXTENDS BroadcastAddress, ConfigParser, FiniteSets

CONSTANTS
  Cases,      (* what a run of the program meets: server and routers what  *)
              (* is in the files, readable: without syntax error, inbox:   *)
              (* the lengths of the messages sent to the server, fails:    *)
              (* system calls may fail, apart: calls of                    *)
              (* calculate_broadcast_address that overlap are left to      *)
              (* other cases, ends: only the reading is followed           *)
  BufferSize  (* bytes of the server's buffer: 1024                        *)

ASSUME CaseAssumption ==
  /\ BufferSize \in Nat
  /\ \A c \in Cases :
       /\ {c.readable, c.fails, c.apart, c.ends} \subseteq BOOLEAN
       /\ c.inbox \in Seq(Nat)

ASSUME FilesAssumption == \A c \in Cases : IsServer(c.server) /\ IsDocument(c.routers)

(* Behind a syntax error there are no tokens, not even STREAM_END.         *)
Tokens(c) ==
  LET tokens == RoutersFile(c.routers)
  IN [server |-> ServerFile(c.server),
      routers |-> IF c.readable THEN tokens ELSE SubSeq(tokens, 1, Len(tokens) \div 2)]

VARIABLES
  case,       (* the case of this run                                      *)
  main,       (* the step of main                                          *)
  files,      (* the tokens of the two files that are left to scan         *)
  reading,    (* the variables of the parser that reads it                 *)
  server,     (* what parse_yaml_file_to_server returned                   *)
  routers,    (* routers->routers                                          *)
  thread,     (* r -> the step of its startRouter                          *)
  listener,   (* device -> the step of its deviceThread                    *)
  caster,     (* device -> the step of its send_on_broadcast               *)
  tcp, udp,   (* device -> its sockets                                     *)
  destroyed,  (* routers whose contents startRouter has destroyed          *)
  serving,    (* the step of start_server                                  *)
  buffer,     (* the server's buffer: byte -> the message it is from, or 0 *)
  texts,      (* history: the number of bytes of every text read           *)
  fault,      (* some thread used memory it must not                       *)
  alive       (* the process exists                                        *)

fileVars == <<files, reading, server>>
threadVars == <<main, thread, listener, caster>>
socketVars == <<tcp, udp>>
serverVars == <<serving, buffer, texts>>
memoryVars == <<destroyed, fault, alive>>
vars == <<case, fileVars, routers, threadVars, socketVars, serverVars, memoryVars, addressVars>>

Routers == DOMAIN routers
Devices(r) == {<<r, d>> : d \in DOMAIN routers[r].devices}
AllDevices == UNION {Devices(r) : r \in Routers}
Device(t) == routers[t[1]].devices[t[2]]

Init ==
  /\ AddressInit
  /\ case \in Cases
  /\ main = "read server" /\ files = Tokens(case) /\ reading = AtServerStart
  /\ server = NoServer /\ routers = <<>>
  /\ thread = <<>>
  /\ listener = <<>> /\ caster = <<>> /\ tcp = <<>> /\ udp = <<>>
  /\ serving = "none" /\ buffer = [b \in 1..BufferSize |-> 0] /\ texts = <<>>
  /\ destroyed = {} /\ fault = FALSE /\ alive = TRUE

Defined == UNCHANGED <<fault, alive>>
Undefined == fault' = TRUE /\ alive' \in BOOLEAN
DefinedUnless(bad) == IF bad THEN Undefined ELSE Defined

-----------------------------------------------------------------------------
(* main.                                                                   *)

(* Either file is read to its STREAM_END.  A syntax error is never         *)
(* noticed: the scanner returns the same empty token for ever, and so does *)
(* main's loop.                                                            *)
Scan(file, Parser(_, _), NoScalar(_, _)) ==
  /\ files[file] # <<>> /\ Head(files[file]).type # "STREAM_END"
  /\ files' = [files EXCEPT ![file] = Tail(@)]
  /\ LET token == Head(files[file])
     IN IF NoScalar(reading, token)
        THEN fault' = TRUE /\ alive' = FALSE /\ UNCHANGED reading
        ELSE Defined /\ reading' = Parser(reading, token)
  /\ UNCHANGED <<case, server, routers, threadVars, socketVars, serverVars, destroyed,
                 addressVars>>

AtEnd(file) == files[file] # <<>> /\ Head(files[file]).type = "STREAM_END"

ScanServer ==
  /\ alive /\ main = "read server"
  /\ Scan("server", ScanServerToken, NoServerValue)

CloseServerFile ==
  /\ alive /\ main = "read server" /\ AtEnd("server")
  /\ main' = "read routers" /\ server' = reading.server /\ reading' = AtStart
  /\ Defined
  /\ UNCHANGED <<case, files, routers, thread, listener, caster, socketVars, serverVars,
                 destroyed, addressVars>>

ScanRouters ==
  /\ alive /\ main = "read routers"
  /\ Scan("routers", ScanToken, NoValue)

CloseRoutersFile ==
  /\ alive /\ main = "read routers" /\ AtEnd("routers")
  /\ main' = "create" /\ routers' = reading.routers /\ reading' = AtStart
  /\ thread' = [r \in Routers' |-> "none"]
  /\ listener' = [t \in AllDevices' |-> "none"] /\ caster' = listener' /\ tcp' = listener'
  /\ udp' = [t \in AllDevices' |-> Null]
  /\ Defined
  /\ UNCHANGED <<case, files, server, serverVars, destroyed, addressVars>>

(* Mutation: the loop runs to i <= num_routers.                            *)
CreatesOneMore(r) ==
  /\ alive /\ main = "create" /\ ~case.ends
  /\ thread[r] = "none" /\ \A q \in Routers : q < r => thread[q] # "none"
  /\ thread' = [q \in Routers \cup {r + 1} |-> IF q >= r THEN "create" ELSE thread[q]]
  /\ Defined
  /\ UNCHANGED <<case, fileVars, routers, main, listener, caster, socketVars, serverVars,
                 destroyed, addressVars>>

CreateRouter(r) ==
  /\ alive /\ main = "create" /\ ~case.ends
  /\ thread[r] = "none" /\ \A q \in Routers : q < r => thread[q] # "none"
  /\ thread' = [thread EXCEPT ![r] = "create"]
  /\ Defined
  /\ UNCHANGED <<case, fileVars, routers, main, listener, caster, socketVars, serverVars,
                 destroyed, addressVars>>

CreateServer ==
  /\ alive /\ main = "create" /\ ~case.ends /\ \A r \in Routers : thread[r] # "none"
  /\ main' = "join" /\ serving' = "bind"
  /\ Defined
  /\ UNCHANGED <<case, fileVars, routers, thread, listener, caster, socketVars, buffer, texts,
                 destroyed, addressVars>>

JoinRouters ==
  /\ alive /\ main = "join" /\ \A r \in Routers : thread[r] = "ended"
  /\ main' = "destroy"
  /\ Defined
  /\ UNCHANGED <<case, fileVars, routers, thread, listener, caster, socketVars, serverVars,
                 destroyed, addressVars>>

(* The routers' contents are the ones startRouter destroyed: its router is *)
(* a copy of the structure, not of what it points to.                      *)
DestroyRouters ==
  /\ alive /\ main = "destroy"
  /\ main' = "destroy server"
  /\ DefinedUnless(destroyed # {})
  /\ UNCHANGED <<case, fileVars, routers, thread, listener, caster, socketVars, serverVars,
                 destroyed, addressVars>>

DestroyServer ==
  /\ alive /\ main = "destroy server"
  /\ main' = "return"
  /\ Defined
  /\ UNCHANGED <<case, fileVars, routers, thread, listener, caster, socketVars, serverVars,
                 destroyed, addressVars>>

MainReturns ==
  /\ alive /\ main = "return"
  /\ main' = "ended" /\ alive' = FALSE
  /\ UNCHANGED <<case, fileVars, routers, thread, listener, caster, socketVars, serverVars,
                 destroyed, fault, addressVars>>

-----------------------------------------------------------------------------
(* startRouter.                                                            *)

(* Mutation: joins every thread right after creating it.                   *)
CreateAndJoin(t) ==
  /\ alive /\ thread[t[1]] = "create"
  /\ listener[t] = "none" /\ \A s \in Devices(t[1]) : s[2] < t[2] => listener[s] = "ended"
  /\ listener' = [listener EXCEPT ![t] = "address"]
  /\ Defined
  /\ UNCHANGED <<case, fileVars, routers, main, thread, caster, socketVars, serverVars,
                 destroyed, addressVars>>

CreateListener(t) ==
  /\ alive /\ thread[t[1]] = "create"
  /\ listener[t] = "none" /\ \A s \in Devices(t[1]) : s[2] < t[2] => listener[s] # "none"
  /\ listener' = [listener EXCEPT ![t] = "address"]
  /\ Defined
  /\ UNCHANGED <<case, fileVars, routers, main, thread, caster, socketVars, serverVars,
                 destroyed, addressVars>>

Created(r) == \A t \in Devices(r) : listener[t] # "none"
AllEnded(r) == \A t \in Devices(r) : listener[t] = "ended"

(* Mutation: destroys the router without joining.                          *)
JoinNobody(r) ==
  /\ alive /\ thread[r] = "create" /\ Created(r)
  /\ thread' = [thread EXCEPT ![r] = "destroy"]
  /\ Defined
  /\ UNCHANGED <<case, fileVars, routers, main, listener, caster, socketVars, serverVars,
                 destroyed, addressVars>>

JoinListeners(r) ==
  /\ alive /\ thread[r] = "create" /\ Created(r) /\ AllEnded(r)
  /\ thread' = [thread EXCEPT ![r] = "destroy"]
  /\ Defined
  /\ UNCHANGED <<case, fileVars, routers, main, listener, caster, socketVars, serverVars,
                 destroyed, addressVars>>

(* A router without name has no table to destroy but whatever the memory   *)
(* held.                                                                   *)
DestroyRouter(r) ==
  /\ alive /\ thread[r] = "destroy"
  /\ thread' = [thread EXCEPT ![r] = "free"]
  /\ destroyed' = destroyed \cup {r}
  /\ DefinedUnless(routers[r].table = Unset)
  /\ UNCHANGED <<case, fileVars, routers, main, listener, caster, socketVars, serverVars, addressVars>>

(* free(data) of an element of an array of main.                           *)
FreeData(r) ==
  /\ alive /\ thread[r] = "free"
  /\ thread' = [thread EXCEPT ![r] = "ended"]
  /\ Undefined
  /\ UNCHANGED <<case, fileVars, routers, main, listener, caster, socketVars, serverVars,
                 destroyed, addressVars>>

-----------------------------------------------------------------------------
(* deviceThread, up to its loop.                                           *)

CallAddress(t) ==
  /\ alive /\ listener[t] = "address"
  /\ case.apart => Others(t) = {}
  /\ \/ FirstToken(t, Device(t).ip, Device(t).mask)
     \/ Refuse(t, Device(t).ip, Device(t).mask)
  /\ Defined
  /\ UNCHANGED <<case, fileVars, routers, threadVars, socketVars, serverVars, destroyed>>

(* strtok reads and writes where its position points, be it the stack of a *)
(* call that has returned.                                                 *)
ProceedAddress(t) ==
  /\ alive /\ listener[t] = "address"
  /\ Proceed(t)
  /\ DefinedUnless(Strays(t))
  /\ UNCHANGED <<case, fileVars, routers, threadVars, socketVars, serverVars, destroyed>>

Step(t, to) ==
  /\ listener' = [listener EXCEPT ![t] = to]
  /\ UNCHANGED <<case, fileVars, routers, main, thread, serverVars, destroyed, addressVars>>

Fails(t) == case.fails /\ Step(t, "ended") /\ Defined /\ UNCHANGED <<caster, tcp, udp>>

(* The file has no port for the router of t, and the parser assigns none.  *)
NoPort(t) == routers[t[1]].port = Unset

(* standard_connection and bind.  inet_addr cannot take a null address; a  *)
(* port that was never assigned is some number, that bind takes or not.    *)
BindTcp(t) ==
  /\ alive /\ listener[t] = "address" /\ call[t].at \in {"returned", "refused"}
  /\ \/ Device(t).ip # Null /\ Step(t, "listen") /\ tcp' = [tcp EXCEPT ![t] = "bound"]
     \/ Device(t).ip = Null /\ Step(t, "ended") /\ UNCHANGED tcp
  /\ DefinedUnless(Device(t).ip = Null \/ NoPort(t))
  /\ UNCHANGED <<caster, udp>>

TcpBindFails(t) ==
  /\ alive /\ listener[t] = "address" /\ call[t].at \in {"returned", "refused"}
  /\ Device(t).ip # Null /\ (case.fails \/ NoPort(t))
  /\ Step(t, "ended") /\ DefinedUnless(NoPort(t))
  /\ UNCHANGED <<caster, tcp, udp>>

Listen(t) ==
  /\ alive /\ listener[t] = "listen"
  /\ Step(t, "broadcast") /\ Defined
  /\ tcp' = [tcp EXCEPT ![t] = "listening"]
  /\ UNCHANGED <<caster, udp>>

ListenFails(t) == alive /\ listener[t] = "listen" /\ Fails(t)

(* The addresses a UDP socket may be bound to: those of the host and their *)
(* broadcast addresses, and the two the kernel takes for any network.      *)
Local(address) ==
  \/ address \in {[i \in 1..4 |-> {}], [i \in 1..4 |-> 0..(OctetBits - 1)]}
  \/ \E t \in AllDevices :
       /\ Device(t).ip # Null /\ Device(t).mask \in Masks
       /\ address \in {Device(t).ip, DirectedBroadcast(Device(t).ip, Device(t).mask)}

(* broadcast_connection, SO_REUSEADDR and bind.  The TCP socket is left    *)
(* listening when they fail.                                               *)
BindUdp(t) ==
  /\ alive /\ listener[t] = "broadcast" /\ call[t].at = "returned"
  /\ Step(t, "spawn") /\ Defined
  /\ \E a \in {Answer(t)} : Local(a) /\ udp' = [udp EXCEPT ![t] = a]
  /\ UNCHANGED <<caster, tcp>>

NotLocal(t) ==
  /\ alive /\ listener[t] = "broadcast" /\ call[t].at = "returned"
  /\ Step(t, "ended") /\ Defined
  /\ \E a \in {Answer(t)} : ~Local(a)
  /\ UNCHANGED <<caster, tcp, udp>>

UdpFails(t) == alive /\ listener[t] = "broadcast" /\ call[t].at = "returned" /\ Fails(t)

NoBroadcastAddress(t) ==
  /\ alive /\ listener[t] = "broadcast" /\ call[t].at = "refused"
  /\ Step(t, "ended") /\ Undefined
  /\ UNCHANGED <<caster, tcp, udp>>

CreateCaster(t) ==
  /\ alive /\ listener[t] = "spawn"
  /\ Step(t, "loop") /\ Defined
  /\ caster' = [caster EXCEPT ![t] = "running"]
  /\ UNCHANGED <<tcp, udp>>

-----------------------------------------------------------------------------
(* The ends of the running threads.                                        *)

(* A failing select closes the sockets, a failing accept leaves them.      *)
SelectFails(t) ==
  /\ alive /\ case.fails /\ listener[t] = "loop"
  /\ Step(t, "ended") /\ Defined
  /\ tcp' = [tcp EXCEPT ![t] = "closed"]
  /\ udp' = [udp EXCEPT ![t] = Null]
  /\ UNCHANGED caster

AcceptFails(t) == alive /\ listener[t] = "loop" /\ Fails(t)

(* A broadcaster reads the router and its device's ip in every round, also *)
(* after the listener that created it has ended.                           *)
CasterMisbehaves(t) ==
  /\ alive /\ caster[t] = "running"
  /\ t[1] \in destroyed \/ routers[t[1]].table = Unset
  /\ caster' = [caster EXCEPT ![t] = "astray"]
  /\ Undefined
  /\ UNCHANGED <<case, fileVars, routers, main, thread, listener, socketVars, serverVars,
                 destroyed, addressVars>>

(* The failures that call exit: opening a file, creating a thread or a     *)
(* socket, sending a broadcast.                                            *)
Exits ==
  /\ alive /\ case.fails
  /\ \/ main \in {"read server", "read routers"}
     \/ \E r \in Routers : thread[r] = "create" /\ ~Created(r)
     \/ \E t \in AllDevices : \/ call[t].at \in {"returned", "refused"} /\ listener[t] = "address"
                              \/ listener[t] = "broadcast"
                              \/ caster[t] = "running"
     \/ serving = "bind"
  /\ alive' = FALSE
  /\ UNCHANGED <<case, fileVars, routers, threadVars, socketVars, serverVars, destroyed,
                 fault, addressVars>>

-----------------------------------------------------------------------------
(* start_server.                                                           *)

ServerStep == UNCHANGED <<case, fileVars, routers, threadVars, socketVars, destroyed, addressVars>>

ServerBinds ==
  /\ alive /\ serving = "bind"
  /\ serving' = "serve" \/ (case.fails /\ serving' = "ended")
  /\ DefinedUnless(server.ip = Null)
  /\ ServerStep /\ UNCHANGED <<buffer, texts>>

Message == Len(texts) + 1

(* "%s" reads up to a NUL, and behind the buffer if there is none in it.   *)
Unterminated == \A b \in 1..BufferSize : buffer[b] # 0

(* Mutation: reads behind what the buffer shows.                           *)
ServerReadsBehind(n) ==
  /\ alive /\ serving = "serve" /\ main \notin {"return", "ended"}
  /\ Message \in DOMAIN case.inbox /\ n <= case.inbox[Message]
  /\ LET end == Cardinality({b \in 1..BufferSize : buffer[b] # 0})
     IN buffer' = [b \in 1..BufferSize |-> IF b \in (end + 1)..(end + n) THEN Message ELSE buffer[b]]
  /\ texts' = Append(texts, n)
  /\ DefinedUnless(Unterminated')
  /\ ServerStep /\ UNCHANGED serving

(* read puts the first n bytes of a message, at most BufferSize, over what *)
(* the buffer holds; n is 0 when the sender closes at once or when read    *)
(* fails.                                                                  *)
ServerReads(n) ==
  /\ alive /\ serving = "serve" /\ main \notin {"return", "ended"}
  /\ Message \in DOMAIN case.inbox /\ n <= case.inbox[Message]
  /\ buffer' = [b \in 1..BufferSize |-> IF b <= n THEN Message ELSE buffer[b]]
  /\ texts' = Append(texts, n)
  /\ DefinedUnless(Unterminated')
  /\ ServerStep /\ UNCHANGED serving

(* The name and address it prints are destroyed.                           *)
ServerMisbehaves ==
  /\ alive /\ serving = "serve" /\ main = "return"
  /\ serving' = "astray"
  /\ Undefined
  /\ ServerStep /\ UNCHANGED <<buffer, texts>>

(* What "%s" shows of the buffer: the bytes before the first NUL.          *)
Shown == {b \in 1..BufferSize : \A a \in 1..b : buffer[a] # 0}

-----------------------------------------------------------------------------
MainNext ==
  \/ ScanServer \/ CloseServerFile \/ ScanRouters \/ CloseRoutersFile
  \/ CreateServer \/ JoinRouters
  \/ DestroyRouters \/ DestroyServer \/ MainReturns
  \/ \E r \in Routers : CreateRouter(r)

RouterNext(r) == JoinListeners(r) \/ DestroyRouter(r) \/ FreeData(r)

ListenerStarts(t) ==
  \/ CallAddress(t) \/ ProceedAddress(t)
  \/ BindTcp(t) \/ TcpBindFails(t) \/ Listen(t) \/ ListenFails(t)
  \/ BindUdp(t) \/ NotLocal(t) \/ UdpFails(t) \/ NoBroadcastAddress(t)
  \/ CreateCaster(t)

ServerNext ==
  \/ ServerBinds \/ ServerMisbehaves
  \/ \E n \in 0..BufferSize : ServerReads(n)

Next ==
  \/ MainNext \/ Exits \/ ServerNext
  \/ \E r \in Routers : RouterNext(r)
  \/ \E t \in AllDevices \cap Callers :
       \/ CreateListener(t) \/ ListenerStarts(t)
       \/ SelectFails(t) \/ AcceptFails(t) \/ CasterMisbehaves(t)

Spec == Init /\ [][Next]_vars

(* The scheduler runs every thread; failures need not happen.  A listener  *)
(* that is not created cannot run, so that one condition covers the step   *)
(* that creates it and its own.                                            *)
Fairness ==
  /\ WF_vars(MainNext)
  /\ \A t \in Callers : WF_vars(t \in AllDevices /\ (CreateListener(t) \/ ListenerStarts(t)))

FairSpec == Spec /\ Fairness

-----------------------------------------------------------------------------
(* Properties.                                                             *)

(* The steps of the threads, and the sockets and buffers they leave.       *)
LifeTypeOK ==
  /\ main \in {"read server", "read routers", "create", "join",
              "destroy", "destroy server", "return", "ended"}
  /\ thread \in [Routers -> {"none", "create", "destroy", "free", "ended"}]
  /\ listener \in [AllDevices -> {"none", "address", "listen", "broadcast", "spawn",
                               "loop", "ended"}]
  /\ caster \in [AllDevices -> {"none", "running", "astray"}]
  /\ tcp \in [AllDevices -> {"none", "bound", "listening", "closed"}]
  /\ udp \in [AllDevices -> Dotted \cup {Null}]
  /\ destroyed \subseteq Routers
  /\ serving \in {"none", "bind", "serve", "ended", "astray"}
  /\ buffer \in [1..BufferSize -> 0..Len(texts)]
  /\ fault \in BOOLEAN /\ alive \in BOOLEAN

(* The files give the server an address, every router a name, every device *)
(* an address and its router a port.                                       *)
Usable ==
  /\ server.ip # Null
  /\ \A r \in Routers : routers[r].table # Unset
  /\ \A t \in AllDevices : Device(t).ip # Null /\ Device(t).mask \in Masks /\ ~NoPort(t)

(* Every message leaves a NUL in the server's buffer.                      *)
ShortMessages == \A i \in DOMAIN case.inbox : case.inbox[i] < BufferSize

(* Of the memory followed here no thread uses what it must not, and main   *)
(* does not return, as long as the files are usable, no message fills the  *)
(* server's buffer, no two calls of calculate_broadcast_address have       *)
(* overlapped, and every router has a listener left: the pointers that     *)
(* listeners, broadcasters and main keep to one router dangle only once    *)
(* startRouter has joined all its listeners, and a strtok that nobody      *)
(* disturbs stays in the copy of its own call.                             *)
SafeWhileListening ==
  /\ Usable /\ ShortMessages /\ overlapped = {}
  /\ Routers # {} /\ \A r \in Routers : \E t \in Devices(r) : listener[t] # "ended"
  => ~fault /\ destroyed = {} /\ main \in {"create", "join"}

(* Files in the form README.md gives, with some router, are read as they   *)
(* are written, whatever the order of the other keys and wherever lists    *)
(* are empty or missing (parse_yaml_file_to_router,                        *)
(* parse_yaml_file_to_server).                                             *)
FilesReadAsWritten ==
  /\ main # "read server" => server = ServerWritten(case.server)
  /\ main \notin {"read server", "read routers"}
     /\ case.routers # <<>> /\ (\A i \in DOMAIN case.routers : InExpectedOrder(case.routers[i])) =>
       routers = RoutersWritten(case.routers)

(* With the keys in any order every device is read once, with all its      *)
(* fields and in the order of the file, though perhaps into another router *)
(* (parse_yaml_file_to_router).                                            *)
NoDeviceLost ==
  main \notin {"read server", "read routers"} =>
    AllOf(routers) = AllOf(RoutersWritten(case.routers))

(* While the tokens of a file are read, the parser's indices are those of  *)
(* the newest router and of its newest device: it neither writes outside   *)
(* the arrays it has allocated nor into an entry it has left               *)
(* (parse_yaml_file_to_router).                                            *)
IndicesOfNewest ==
  main = "read routers" =>
    LET newest == reading.routers[reading.router]
    IN /\ reading.router \in {0, Len(reading.routers)}
       /\ reading.device # 0 => reading.router # 0 /\ reading.device = Len(newest.devices)

(* Every byte of its buffer that the server shows is of the newest message *)
(* that reached so far; what follows a shorter message is the rest of      *)
(* older ones (start_server, which does not clear the buffer).             *)
Reaching(b) == {i \in DOMAIN texts : texts[i] >= b}

ShowsNewest ==
  /\ Shown = {b \in 1..BufferSize : Reaching(b) # {}}
  /\ \A b \in Shown : \A i \in Reaching(b) : buffer[b] >= i
  /\ \A b \in Shown : buffer[b] \in Reaching(b)

(* Every device in a file without syntax errors comes into service or its  *)
(* thread gives up, unless the process dies: the threads wait for nobody.  *)
(* A thread that misused memory and lives goes on with its steps here.     *)
Started ==
  /\ main \notin {"read server", "read routers", "create"}
  /\ \A t \in AllDevices : listener[t] \in {"loop", "ended"}

StartupCompletes == <>(Started \/ ~alive \/ ~case.readable \/ case.ends)

(* Once its start-up is over, an interface whose TCP socket listens also   *)
(* listens on the broadcast address of its network.                        *)
TwoSockets ==
  \A t \in AllDevices :
    tcp[t] = "listening" /\ listener[t] \in {"loop", "ended"} =>
      udp[t] = DirectedBroadcast(Device(t).ip, Device(t).mask)
==============================================================================
