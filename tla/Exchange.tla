------------------------------ MODULE Exchange ------------------------------
(***************************************************************************)
(* A confirmed service exchange end to end: the client TSM of one device,  *)
(* the server TSM and the handlers of another, and the network in between. *)
(* What one side hands to network.send() travels to the other side, where  *)
(* _on_apdu_received() of app/application.py routes it by its PDU type.    *)
(*                                                                         *)
(* The network is external to the code.  A link that keeps order is a      *)
(* queue in each direction, and may lose messages; one that does not is    *)
(* the set of what was sent, any of which may arrive at any time, any      *)
(* number of times, or never, until it is too old to be under way.  On a   *)
(* timely link a round trip and a handler are short compared with the      *)
(* timeouts, so that a timer only fires when nothing is under way.         *)
(***************************************************************************)
EXTENDS Integers, Sequences, FiniteSets, SequencesExt

CONSTANTS
  SeqSpace, MaxReassembly, IdSpace, Retries, OurWindow, MaxWindow,
  ResponseSizes, MaxRequests,
  Links,            \* the links considered, each with what is asked over it
  MaxSegments,      \* max_segments of the client, sent in its requests
  MaxTransactions,  \* bound: server transactions at a time
  NetBound          \* bound: messages in flight in one direction

ASSUME ExchangeAssumption ==
  /\ MaxSegments \in Nat /\ NetBound \in Nat
  /\ \A l \in Links :
       /\ {l.ordered, l.lossy, l.timely} \subseteq BOOLEAN
       /\ l.sizes \subseteq Nat \ {0}      \* segments of its requests
       /\ l.ordered \/ l.sizes = {1}
       /\ l.requests \in 1 .. MaxRequests  \* bound: requests made over it
       /\ l.outstanding \in Nat            \* bound: of them, at a time
       /\ l.lifetime \in Nat   \* in later requests, without order
       /\ l.age \in Nat        \* of a segment, in later segments, without order
       /\ l.answers \subseteq STRING       \* responses without data
       /\ l.responses \subseteq ResponseSizes

Sizes == UNION { l.sizes : l \in Links }

VARIABLES
  link,                                  \* the link between the two
  txn, timer, next_invoke_id, requests,  \* of the client
  table, obj, dcc, late,                 \* of the server
  sent,                                  \* PDUs sent by the last step
  to_server, to_client,                  \* messages in flight
  asked,                                 \* the sizes of the requests made
  held,                                  \* those whose ID the server still held
  told,                                  \* what each came to for its caller
  ran                                    \* payloads handed to a handler

client_vars == <<txn, timer, next_invoke_id, requests>>
server_vars == <<table, obj, dcc, late>>
history == <<asked, held, told, ran>>
vars == <<link, client_vars, server_vars, sent, to_server, to_client, history>>

Link == "link"   \* the one address either side knows the other by

C == INSTANCE ClientTSM WITH Peers <- {Link}, Slices <- {}, PeerWindows <- {}

S == INSTANCE ServerTSM WITH
       Peers <- {Link}, Requests <- {}, AllowedRequests <- {},
       RequestSlices <- {}, PeerWindows <- {}, PeerMaxSegments <- {MaxSegments},
       PeerAccepts <- {TRUE}, DccStates <- {"ENABLE"}

-----------------------------------------------------------------------------
(* The network.                                                            *)

NoMessages == IF link.ordered THEN <<>> ELSE {}

\* The messages that may arrive next.
Arriving(chan) ==
  IF link.ordered THEN { m \in Range(chan) : m = Head(chan) } ELSE chan

Without(chan) == IF link.ordered THEN Tail(chan) ELSE chan

With(chan, pdus) == IF link.ordered THEN chan \o pdus ELSE chan \cup Range(pdus)

InBounds(chan) == link.ordered => Len(chan) <= NetBound

\* Nothing is in flight and no handler is at work.
Quiet ==
  /\ to_server = NoMessages /\ to_client = NoMessages
  /\ \A n \in DOMAIN obj : ~S!AtWork(obj[n])

\* What the futures of the requests, pending ones included, now hold.
Resolved(requested) ==
  [r \in DOMAIN requested |->
     IF \E k \in DOMAIN txn' : txn'[k].uid = r
       THEN txn'[CHOOSE k \in DOMAIN txn' : txn'[k].uid = r].future ELSE told[r]]

Key(m) == <<m.peer, m.id>>

\* What the client sends, marked with the request it is about; what the
\* server sends names it in its data.
Marked(pdus) ==
  IF link.ordered THEN pdus
  ELSE [i \in DOMAIN pdus |->
          LET k == Key(pdus[i]) IN
          pdus[i] @@ [of |-> IF k \in DOMAIN txn' THEN txn'[k].uid ELSE txn[k].uid]]

About(m) ==
  CASE "of" \in DOMAIN m -> m.of
    [] "data" \in DOMAIN m -> m.data[1][1]
    [] "slice" \in DOMAIN m -> m.slice[1][1][1]

\* A link without order forgets: what is about a request, when lifetime
\* further requests have been made, and a segment, when age more are there.
Outlived(m) ==
  \/ About(m) + link.lifetime <= Len(asked')
  \/ /\ m.pdu = "ResponseSegment" /\ Key(m) \in DOMAIN txn'
     /\ m.slice[2] + link.age < txn'[Key(m)].receiver.exp

StillUnderWay(chan) == IF link.ordered THEN chan ELSE { m \in chan : ~Outlived(m) }

ClientStep(to_s, to_c) ==
  /\ to_server' = With(StillUnderWay(to_s), Marked(sent'))
  /\ InBounds(to_server')
  /\ to_client' = StillUnderWay(to_c)
  /\ told' = Resolved(asked')
  /\ UNCHANGED <<link, server_vars, ran>>

\* The payloads this step hands to a handler.
Dispatching ==
  { obj'[n].data : n \in { x \in DOMAIN obj' :
      /\ S!AtWork(obj'[x])
      /\ x \notin DOMAIN obj \/ ~S!AtWork(obj[x]) } }

ServerStep(to_s, to_c) ==
  /\ to_client' = With(to_c, sent')
  /\ InBounds(to_client')
  /\ to_server' = to_s
  /\ ran' = ran \cup Dispatching
  /\ UNCHANGED <<link, client_vars, asked, held, told>>

-----------------------------------------------------------------------------
(* _on_apdu_received(): the calls it makes for each type of PDU.           *)

ComplexAckData(m) == [i \in 1 .. m.size |-> <<m.data, i - 1>>]

\* A response calls the client TSM.
ClientHandles(m) ==
  \/ m.pdu = "SimpleAck" /\ C!handle_simple_ack(Key(m))
  \/ m.pdu = "ComplexAck" /\ C!handle_complex_ack(Key(m), ComplexAckData(m))
  \/ m.pdu = "Error" /\ C!handle_error(Key(m))
  \/ m.pdu = "Reject" /\ C!handle_reject(Key(m))
  \/ m.pdu = "Abort" /\ C!handle_abort(Key(m))
  \/ m.pdu = "ServerSegmentAck" /\ C!handle_segment_ack(Key(m), m.seq, m.aws)
  \/ /\ m.pdu = "ResponseSegment"
     /\ C!handle_segmented_complex_ack(Key(m), m.seq, m.slice, m.more, m.pws)

\* A request or a client's SegmentACK calls the server TSM.
ServerHandles(m) ==
  \/ /\ m.pdu = "ConfirmedRequest"
     /\ S!receive_confirmed_request(Key(m), m.data, TRUE, MaxSegments)
  \/ /\ m.pdu = "RequestSegment"
     /\ S!receive_request_segment(Key(m), m.seq, m.slice, m.more, m.pws,
                                  TRUE, MaxSegments)
  \/ /\ m.pdu = "ClientSegmentAck"
     /\ S!handle_segment_ack_for_response(Key(m), m.seq, m.aws)

\* The early returns of those handlers: the state a PDU is taken up in.
ClientState(m) == IF C!Live(Key(m)) THEN txn[Key(m)].state ELSE "none"

ClientIgnores(m) ==
  CASE m.pdu \in {"SimpleAck", "ComplexAck"} -> ClientState(m) # "AWAIT_CONFIRMATION"
    [] m.pdu \in {"Error", "Reject", "Abort"} -> ClientState(m) = "none"
    [] m.pdu = "ServerSegmentAck" -> ClientState(m) # "SEGMENTED_REQUEST"
    [] m.pdu = "ResponseSegment" ->
         /\ ClientState(m) # "SEGMENTED_CONFIRMATION"
         /\ ClientState(m) # "AWAIT_CONFIRMATION" \/ m.seq # 0

ServerState(m) == IF Key(m) \in DOMAIN table THEN obj[table[Key(m)]].state ELSE "none"

\* A client's Abort goes to the client TSM of the receiving device, which
\* has no transaction in this model, and never to its server TSM.
ServerIgnores(m) ==
  CASE m.pdu = "ConfirmedRequest" -> ServerState(m) = "SEGMENTED_REQUEST"
    [] m.pdu = "RequestSegment" -> FALSE
    [] m.pdu = "ClientSegmentAck" -> ServerState(m) # "SEGMENTED_RESPONSE"
    [] m.pdu = "ClientAbort" -> TRUE

deliver_to_client ==
  \E m \in Arriving(to_client) :
    \/ ClientHandles(m) /\ UNCHANGED <<asked, held>> /\ ClientStep(to_server, Without(to_client))
    \/ /\ ClientIgnores(m)
       /\ to_client' = Without(to_client)
       /\ sent' = <<>>
       /\ UNCHANGED <<link, client_vars, server_vars, to_server, history>>

deliver_to_server ==
  \E m \in Arriving(to_server) :
    \/ ServerHandles(m) /\ ServerStep(Without(to_server), to_client)
    \/ /\ ServerIgnores(m)
       /\ to_server' = Without(to_server)
       /\ sent' = <<>>
       /\ UNCHANGED <<link, client_vars, server_vars, to_client, history>>

lose ==
  /\ link.ordered /\ link.lossy
  /\ \/ /\ to_server # <<>>
        /\ to_server' = Tail(to_server) /\ UNCHANGED to_client
     \/ /\ to_client # <<>>
        /\ to_client' = Tail(to_client) /\ UNCHANGED to_server
  /\ sent' = <<>>
  /\ UNCHANGED <<link, client_vars, server_vars, history>>

-----------------------------------------------------------------------------
(* What the two devices do by themselves.                                  *)

\* The transactions and handlers the server still has under a key.
HeldByServer(k) == { n \in DOMAIN obj : obj[n].key = k }

request(size) ==
  /\ Len(asked) < link.requests
  /\ Cardinality(DOMAIN txn) < link.outstanding
  /\ C!send_request(Link, size)
  /\ asked' = Append(asked, size)
  /\ held' = IF \A k \in DOMAIN txn' \ DOMAIN txn : HeldByServer(k) = {}
             THEN held ELSE held \cup {Len(asked')}
  /\ ClientStep(to_server, to_client)

ClientKeys == {Link} \X (0 .. (IdSpace - 1))

finish ==
  /\ \E k \in ClientKeys : C!finish_request(k)
  /\ UNCHANGED <<asked, held>>
  /\ ClientStep(to_server, to_client)

client_timeout ==
  /\ link.timely => Quiet
  /\ \E k \in ClientKeys : C!on_timeout(k) \/ C!on_segment_timeout(k)
  /\ UNCHANGED <<asked, held>>
  /\ ClientStep(to_server, to_client)

handler ==
  /\ \E n \in 1 .. MaxTransactions :
       \/ S!dispatch_request(n)
       \/ \E kind \in link.answers : S!handler_returns(n, kind)
       \/ \E size \in link.responses : S!handler_returns_data(n, size)
  /\ ServerStep(to_server, to_client)

server_timeout ==
  /\ link.timely => Quiet
  /\ \E n \in 1 .. MaxTransactions :
       S!on_timeout(n) \/ S!on_server_segment_timeout(n)
  /\ ServerStep(IF link.ordered THEN to_server ELSE {}, to_client)

-----------------------------------------------------------------------------
Init ==
  /\ link \in Links
  /\ C!Init /\ S!Init
  /\ to_server = NoMessages /\ to_client = NoMessages
  /\ asked = <<>> /\ held = {} /\ told = <<>> /\ ran = {}

Next ==
  \/ \E size \in link.sizes : request(size)
  \/ finish
  \/ client_timeout
  \/ deliver_to_client
  \/ deliver_to_server
  \/ handler
  \/ server_timeout
  \/ lose

Spec == Init /\ [][Next]_vars

\* The event loop runs every callback, task and due timer, and what is not
\* lost is delivered.
Fairness ==
  /\ WF_vars(finish) /\ WF_vars(client_timeout)
  /\ WF_vars(handler) /\ WF_vars(server_timeout)
  /\ WF_vars(deliver_to_client) /\ WF_vars(deliver_to_server)

FairSpec == Spec /\ Fairness

-----------------------------------------------------------------------------
(* Properties.                                                             *)

Payload(r) == [i \in 1 .. asked[r] |-> <<r, i - 1>>]

\* What a handler is given is exactly the payload of one request the client
\* made, complete and in order, however it was cut into segments.
RequestIntact == \A p \in ran : \E r \in DOMAIN asked : p = Payload(r)

\* The data a request returns to its caller is, complete and in order, the
\* answer the handler gave to that very request: not to an earlier one whose
\* answer is still on the way, nor with a segment in the place of another that
\* had its number.  What keeps them apart are numbers that come round only
\* when the network has forgotten who had them.  It fails where the server
\* still held a transaction of the ID when the request was made, and takes the
\* request for a repetition.
ResponseIntact ==
  \A k \in DOMAIN txn :
    txn[k].uid \notin held /\ txn[k].future = "result" /\ txn[k].result # <<>> =>
      \E size \in ResponseSizes :
        txn[k].result = [i \in 1 .. size |-> <<Payload(txn[k].uid), i - 1>>]

\* When the sender of a segmented request takes it as acknowledged, the
\* receiver has all of it: the segments reached the handler.
AcknowledgedMeansReceived ==
  \A k \in DOMAIN txn :
    txn[k].state = "AWAIT_CONFIRMATION" /\ txn[k].size > 1 =>
      Payload(txn[k].uid) \in ran

\* What one side hands over is what the other side was given: requests,
\* responses, and the acknowledgements of segments that stand for them.
PayloadsIntact == RequestIntact /\ ResponseIntact /\ AcknowledgedMeansReceived

\* The exchange as its caller sees it.
Outcome(future) ==
  CASE future = "pending" -> "pending"
    [] future \in {"result", "error", "reject"} -> "answered"
    [] OTHER -> "given_up"

Service == INSTANCE ConfirmedService WITH
  reliable <- ~link.lossy,
  executed <- {r \in DOMAIN asked : Payload(r) \in ran},
  outcome <- [r \in DOMAIN told |-> Outcome(told[r])]

\* Refinement: the two state machines implement the confirmed service, over a
\* link that loses nothing and over one that does.  Each request ends once,
\* with the answer of a handler that was given it, or is given up because
\* messages were lost.
ImplementsService == Service!Spec
=============================================================================
