----------------------------- MODULE ConfigParser -----------------------------
(***************************************************************************)
(* How parser.c reads the two configuration files: token by token, with a  *)
(* current router, a current device and a current key, and with no regard  *)
(* for the nesting beyond that.                                            *)
(*                                                                         *)
(* A document is the sequence of its routers, each the sequence of its     *)
(* fields in the order of the file: [key, value], or [key |-> "devices",   *)
(* list] with a device the sequence of its own fields, or only             *)
(* [key |-> "devices"] when the key has no value.                          *)
(***************************************************************************)
EXTENDS Addresses, Sequences, SequencesExt

CONSTANT Unset   (* a field that was never assigned                        *)

ASSUME KeyAssumption == Null \notin {"name", "port", "interface", "ip", "mask"}

-----------------------------------------------------------------------------
(* The scanner of libyaml: the tokens of a document in block style.        *)

Token(type) == [type |-> type]
Scalar(v) == [type |-> "SCALAR", value |-> v]

Concat(n, Part(_)) == FlattenSeq([i \in 1..n |-> Part(i)])

Pair(key, value) == <<Token("KEY"), Scalar(key), Token("VALUE")>> \o value
Block(type, tokens) == <<Token(type)>> \o tokens \o <<Token("BLOCK_END")>>

ValueTokens(field) == IF "value" \in DOMAIN field THEN <<Scalar(field.value)>> ELSE <<>>

Fields(fields, Value(_)) ==
  Block("BLOCK_MAPPING_START",
        Concat(Len(fields), LAMBDA i : Pair(fields[i].key, Value(fields[i]))))

Items(list, Item(_)) ==
  IF list = <<>> THEN <<Token("FLOW_SEQUENCE_START"), Token("FLOW_SEQUENCE_END")>>
  ELSE Block("BLOCK_SEQUENCE_START",
             Concat(Len(list), LAMBDA i : <<Token("BLOCK_ENTRY")>> \o Item(list[i])))

DeviceTokens(device) == Fields(device, ValueTokens)

FieldTokens(field) ==
  IF "list" \in DOMAIN field THEN Items(field.list, DeviceTokens) ELSE ValueTokens(field)

File(key, value) ==
  <<Token("STREAM_START")>> \o Block("BLOCK_MAPPING_START", Pair(key, value))
  \o <<Token("STREAM_END")>>

RouterTokens(router) == Fields(router, FieldTokens)

(* The server is a list of one.                                            *)
ServerTokens(fields) ==
  Block("BLOCK_SEQUENCE_START", <<Token("BLOCK_ENTRY")>> \o Fields(fields, ValueTokens))

RoutersFile(document) == File("routers", Items(document, RouterTokens))
ServerFile(fields) == File("server", ServerTokens(fields))

-----------------------------------------------------------------------------
(* parse_yaml_file_to_router.  An index of 0 stands for -1, and pending    *)
(* tells what the next token is scanned for.                               *)

NewRouter == [name |-> Null, port |-> Unset, table |-> Unset, devices |-> <<>>]
NewDevice == [interface |-> Null, ip |-> Null, mask |-> 0]

AtStart == [routers |-> <<>>, router |-> 0, device |-> 0, key |-> Null, pending |-> "none"]

OpenRouter(p) ==
  IF p.router # 0 THEN p
  ELSE [p EXCEPT !.routers = Append(@, NewRouter), !.router = Len(p.routers) + 1]

OpenDevice(p) ==
  IF p.device # 0 THEN p
  ELSE [p EXCEPT !.routers[p.router].devices = Append(@, NewDevice),
                 !.device = Len(p.routers[p.router].devices) + 1]

(* The value of the current key goes to the open router or device; the     *)
(* name also selects the file that the routing table is read from.         *)
Assign(p, v) ==
  CASE p.key = "name" /\ p.device = 0 ->
         [p EXCEPT !.routers[p.router].name = v, !.routers[p.router].table = v]
    [] p.key = "port" /\ p.device = 0 ->
         [p EXCEPT !.routers[p.router].port = v]
    [] p.key \in {"interface", "ip", "mask"} ->
         LET q == OpenDevice(p)
         IN [q EXCEPT !.routers[q.router].devices[q.device][p.key] = v]
    [] OTHER -> p

(* The token behind VALUE is consumed whatever it is: the start of the     *)
(* list when it is one, the end of the mapping when there is no value.     *)
OnValue(p, token) ==
  LET q == OpenRouter(p)
      r == IF token.type = "SCALAR" THEN Assign(q, token.value) ELSE q
  IN [r EXCEPT !.key = Null, !.pending = "none"]

OnKey(p, token) == [p EXCEPT !.key = token.value, !.pending = "none"]

(* Mutations of OnBlockEnd: it closes only a device, or only the router.   *)
ClosesDeviceOnly(p) == [p EXCEPT !.device = 0]
ClosesRouterOnly(p) == [p EXCEPT !.router = 0]

(* The end of a list of devices closes the router: no device is open.      *)
OnBlockEnd(p) ==
  IF p.device # 0 THEN [p EXCEPT !.device = 0] ELSE [p EXCEPT !.router = 0]

Awaits(p, token) == [p EXCEPT !.pending = CASE token.type = "KEY" -> "key"
                                            [] token.type = "VALUE" -> "value"
                                            [] OTHER -> "none"]

ScanToken(p, token) ==
  CASE p.pending = "key"   -> OnKey(p, token)
    [] p.pending = "value" -> OnValue(p, token)
    [] p.pending = "none" /\ token.type = "BLOCK_END" -> OnBlockEnd(p)
    [] OTHER -> Awaits(p, token)

(* strdup or atoi of the null pointer of a token that is no scalar.        *)
NoValue(p, token) ==
  /\ p.pending = "value" /\ token.type # "SCALAR"
  /\ \/ p.key \in {"interface", "ip", "mask"}
     \/ p.key \in {"name", "port"} /\ p.device = 0

-----------------------------------------------------------------------------
(* parse_yaml_file_to_server: the keys count wherever they are.            *)

NoServer == [name |-> Null, ip |-> Null, port |-> 0, mask |-> 0]

AtServerStart == [server |-> NoServer, key |-> Null, pending |-> "none"]

ScanServerToken(p, token) ==
  CASE p.pending = "key"   -> OnKey(p, token)
    [] p.pending = "value" ->
         [p EXCEPT !.server = IF p.key \in DOMAIN NoServer /\ token.type = "SCALAR"
                              THEN [@ EXCEPT ![p.key] = token.value] ELSE @,
                   !.key = Null, !.pending = "none"]
    [] OTHER -> Awaits(p, token)

NoServerValue(p, token) ==
  p.pending = "value" /\ token.type # "SCALAR" /\ p.key \in DOMAIN NoServer

-----------------------------------------------------------------------------
(* What the files say.                                                     *)

Keys(fields) == {fields[i].key : i \in DOMAIN fields}
ValueOf(fields, key, default) ==
  IF key \in Keys(fields) THEN fields[CHOOSE i \in DOMAIN fields : fields[i].key = key].value
  ELSE default

DevicesOf(router) ==
  IF \E i \in DOMAIN router : "list" \in DOMAIN router[i]
  THEN router[CHOOSE i \in DOMAIN router : "list" \in DOMAIN router[i]].list
  ELSE <<>>

DeviceWritten(device) ==
  [interface |-> ValueOf(device, "interface", Null),
   ip        |-> ValueOf(device, "ip", Null),
   mask      |-> ValueOf(device, "mask", 0)]

DevicesWritten(router) == [i \in DOMAIN DevicesOf(router) |-> DeviceWritten(DevicesOf(router)[i])]

RouterWritten(router) ==
  [name    |-> ValueOf(router, "name", Null),
   port    |-> ValueOf(router, "port", Unset),
   table   |-> ValueOf(router, "name", Unset),
   devices |-> DevicesWritten(router)]

ServerWritten(fields) == [key \in DOMAIN NoServer |-> ValueOf(fields, key, NoServer[key])]

RoutersWritten(document) == [i \in DOMAIN document |-> RouterWritten(document[i])]

(* The form README.md asks for: the devices come last, if any.             *)
InExpectedOrder(router) ==
  \A i \in DOMAIN router : router[i].key = "devices" =>
    i = Len(router) /\ "list" \in DOMAIN router[i]

(* The files that are followed: no key is twice in a mapping, a device has *)
(* fields of devices only and a router none of them, only routers have     *)
(* lists, and what has a key the parser does not know has a value.         *)
IsMapping(fields) ==
  /\ fields \in Seq(Range(fields))
  /\ \A i, j \in DOMAIN fields : fields[i].key = fields[j].key => i = j

Known(fields, keys) ==
  \A i \in DOMAIN fields : fields[i].key \in keys \/ "value" \in DOMAIN fields[i]

IsServer(fields) == IsMapping(fields) /\ Known(fields, DOMAIN NoServer)

IsDevice(device) ==
  IsMapping(device) /\ device # <<>> /\ Keys(device) \subseteq DOMAIN NewDevice

IsRouter(router) ==
  /\ IsMapping(router) /\ router # <<>>
  /\ Keys(router) \cap DOMAIN NewDevice = {}
  /\ Known(router, {"name", "port", "devices"})
  /\ \A i \in DOMAIN router : "list" \in DOMAIN router[i] =>
       /\ router[i].key = "devices"
       /\ router[i].list \in Seq(Range(router[i].list))
       /\ \A j \in DOMAIN router[i].list : IsDevice(router[i].list[j])

IsDocument(document) ==
  /\ document \in Seq(Range(document))
  /\ \A i \in DOMAIN document : IsRouter(document[i])

(* The devices of all routers, in the order of the file.                   *)
AllOf(lists) == Concat(Len(lists), LAMBDA i : lists[i].devices)
==============================================================================
