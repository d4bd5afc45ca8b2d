----------------------------- MODULE Conversation -----------------------------
(***************************************************************************)
(* One room while it is on air, from the viewers' connections to the reply   *)
(* they see (aria/contexts/chat: adapter/inbound/ws/router.py and            *)
(* http/router.py, application/service.py, adapter/outbound/redis/           *)
(* broadcast.py, the choice of progress.py, the reply of generation.py).     *)
(*                                                                          *)
(* A WebSocket is accepted, sends its token, is let into a live room, is     *)
(* subscribed, and only then are its two pumps started; frames are handled   *)
(* one after another.  An HTTP request is a connection for one frame.  A     *)
(* connection has one database session, which rooms, transcript and wallet   *)
(* share; after a statement that failed nobody rolls it back.                *)
(*                                                                          *)
(* The charge is one step, as CreditAccount has it: a key that has been paid *)
(* is answered as done and not debited again.  The claim, the slot and the   *)
(* model are GenerationWorker's, the lock and the stories Progress', the      *)
(* overlap of two transitions LiveRooms'; here a worker replies or is silent. *)
(***************************************************************************)
EXTENDS Transcript, TopicSelection

CONSTANTS
    Sockets, Posts,     \* viewers on a WebSocket; HTTP requests
    Frames,             \* bound: what the viewers send
    sender, kind, fit,  \* who sends a frame, "message" or "superchat", and whether
                        \* the domain accepts its text and amount
    content,            \* what the choice looks at in a message
    NoFrame,
    MaxFailures         \* bound: calls and statements that fail

Clients == Sockets \cup Posts

ASSUME ConversationAssumption ==
    /\ Sockets \cap Posts = {} /\ NoFrame \notin Frames
    /\ sender \in [Frames -> Clients] /\ kind \in [Frames -> {"message", "superchat"}]
    /\ fit \in [Frames -> BOOLEAN]
    /\ MaxFailures \in Nat

VARIABLES
    room,       \* the status of the room
    conn,       \* where each connection is
    broken,     \* connections whose session refuses every statement
    joined,     \* per socket: how many events were aired before it subscribed
    doing,      \* the frame each connection handles, its next call and its id
    over,       \* frames that need not be sent again
    paidIn,     \* the status of the room when a superchat's key was debited
    stranded,   \* superchats refused because of an earlier statement that failed
    aired,      \* the events of the room's channel, in order
    buffer,     \* the candidates, in order
    asked,      \* generation requests: the frame to answer, and how far the worker is
    failures,   \* calls that broke a handler off
    dbFailures  \* appends that failed

connectionVars == <<conn, broken, joined, doing, over>>
payVars == <<paidIn, stranded>>
streamVars == <<aired, buffer, asked>>
failureVars == <<failures, dbFailures>>
conversationVars ==
    <<transcriptVars, room, connectionVars, payVars, streamVars, failureVars>>

Nothing == [frame |-> NoFrame, call |-> "none", id |-> 0]
Calls == {"none", "charge", "record", "show", "offer", "request"}

(* Fault: thanks are asked for while the superchat is being shown.            *)
OrderThanksFirst(k) == IF k = "message" THEN <<"record", "show", "offer">>
                                        ELSE <<"charge", "record", "request", "show">>
(* The calls of a frame, in the order of the handler.                        *)
Order(k) == IF k = "message" THEN <<"record", "show", "offer">>
                             ELSE <<"charge", "record", "show", "request">>

ConversationTypeOK ==
    /\ TranscriptTypeOK
    /\ room \in {"pending", "live", "finished"}
    /\ conn \in [Clients -> {"out", "greeting", "known", "admitted", "on", "over"}]
    /\ broken \subseteq Clients /\ joined \in [Clients -> Nat]
    /\ doing \in [Clients -> [frame : Frames \cup {NoFrame}, call : Calls, id : Nat]]
    /\ \A c \in Clients :
        /\ joined[c] <= Len(aired)
        /\ IF doing[c].frame = NoFrame THEN doing[c] = Nothing
           ELSE /\ conn[c] = "on" /\ sender[doing[c].frame] = c /\ doing[c].frame \notin over
                /\ doing[c].call \in ToSet(Order(kind[doing[c].frame]))
    /\ over \subseteq Frames /\ stranded \subseteq Frames
    /\ paidIn \in [Frames -> {"unpaid", "pending", "live", "finished"}]
    /\ aired \in Seq([kind : {"message", "superchat", "reply"}, frame : Frames, id : Nat])
    /\ buffer \in Seq([frame : Frames, id : Nat])
    /\ asked \in Seq([frame : Frames, repliedTo : Nat, id : Nat,
                      stage : {"asked", "recorded", "said", "silent"}])
    /\ failures \in Nat /\ dbFailures \in Nat /\ failures + dbFailures <= MaxFailures

ConversationInit ==
    /\ TranscriptInit
    /\ room = "pending"
    /\ conn = [c \in Clients |-> "out"] /\ broken = {}
    /\ joined = [c \in Clients |-> 0]
    /\ doing = [c \in Clients |-> Nothing] /\ over = {}
    /\ paidIn = [f \in Frames |-> "unpaid"] /\ stranded = {}
    /\ aired = <<>> /\ buffer = <<>> /\ asked = <<>>
    /\ failures = 0 /\ dbFailures = 0

FailuresLeft == failures + dbFailures < MaxFailures
Fail == FailuresLeft /\ failures' = failures + 1 /\ UNCHANGED dbFailures
DbFail == FailuresLeft /\ dbFailures' = dbFailures + 1 /\ UNCHANGED failures

(* Staff start and finish the broadcast; the closer may finish it as well.    *)
Transition ==
    /\ room' = CASE room = "pending" -> "live" [] room = "live" -> "finished"
                 [] OTHER -> room
    /\ room # "finished"
    /\ UNCHANGED <<transcriptVars, connectionVars, payVars, streamVars, failureVars>>

-----------------------------------------------------------------------------
(* Connections.                                                              *)

Goto(c, place) == conn' = [conn EXCEPT ![c] = place]

(* accept; the handler waits for the first frame, for _AUTH_TIMEOUT at most.     *)
(* Bound: a viewer with nothing left to send does not come back.              *)
Accept(c) ==
    /\ c \in Sockets /\ conn[c] = "out"
    /\ \E f \in Frames \ over : sender[f] = c
    /\ Goto(c, "greeting")
    /\ UNCHANGED <<transcriptVars, room, broken, joined, doing, over, payVars,
                   streamVars, failureVars>>

(* _authenticate: a token that is good, or 4401, 4408 or a client that left.  *)
Authenticate(c) ==
    /\ conn[c] = "greeting"
    /\ Goto(c, "known") \/ Goto(c, "out")
    /\ UNCHANGED <<transcriptVars, room, broken, joined, doing, over, payVars,
                   streamVars, failureVars>>

(* ensure_open; 4404 or 404 if the room is not live.  An HTTP request goes     *)
(* straight on to its frame.                                                 *)
EnsureOpen(c) ==
    /\ \/ c \in Sockets /\ conn[c] = "known"
             /\ Goto(c, IF room = "live" THEN "admitted" ELSE "out")
       \/ c \in Posts /\ conn[c] = "out"
             /\ Goto(c, IF room = "live" THEN "on" ELSE "over")
    /\ UNCHANGED <<transcriptVars, room, broken, joined, doing, over, payVars,
                   streamVars, failureVars>>

(* Fault: the subscription is made when the stream is first read.             *)
SubscribeLazily(c) ==
    /\ conn[c] = "admitted"
    /\ joined' \in {[joined EXCEPT ![c] = n] : n \in Len(aired)..(Len(aired) + 1)}
    /\ Goto(c, "on")
    /\ UNCHANGED <<transcriptVars, room, broken, doing, over, payVars, streamVars,
                   failureVars>>
(* subscribe returns when Redis has confirmed it, and then the pumps start.    *)
Subscribe(c) ==
    /\ conn[c] = "admitted"
    /\ joined' = [joined EXCEPT ![c] = Len(aired)]
    /\ Goto(c, "on")
    /\ UNCHANGED <<transcriptVars, room, broken, doing, over, payVars, streamVars,
                   failureVars>>

(* Handler, subscription and session end together; a request is answered once. *)
Closed(c) ==
    /\ Goto(c, IF c \in Sockets THEN "out" ELSE "over")
    /\ broken' = broken \ {c}
    /\ doing' = [doing EXCEPT ![c] = Nothing]
    /\ joined' = [joined EXCEPT ![c] = 0]

(* The viewer is gone: noticed when the next frame is awaited.                *)
Leave(c) ==
    /\ c \in Sockets /\ conn[c] = "on" /\ doing[c] = Nothing
    /\ Closed(c)
    /\ UNCHANGED <<transcriptVars, room, over, payVars, streamVars, failureVars>>

-----------------------------------------------------------------------------
(* handle_user_message and handle_superchat.  touch, which every frame does     *)
(* before it is recorded, is Progress'.                                      *)

At(c, call) == doing[c].call = call

(* A frame comes in.  A message the domain refuses ends here; a message it      *)
(* accepts takes its id.                                                     *)
Receive(c, f) ==
    /\ conn[c] = "on" /\ doing[c] = Nothing
    /\ sender[f] = c /\ f \notin over
    /\ IF kind[f] = "message" /\ ~fit[f]
       THEN over' = over \cup {f} /\ UNCHANGED <<doing, lastId>>
       ELSE LET id == IF kind[f] = "message" THEN lastId + 1 ELSE 0
            IN  /\ doing' = [doing EXCEPT ![c] =
                                [frame |-> f, call |-> Head(Order(kind[f])), id |-> id]]
                /\ lastId' = IF kind[f] = "message" THEN id ELSE lastId
                /\ UNCHANGED over
    /\ UNCHANGED <<table, unrecorded, page, room, conn, broken, joined, payVars, streamVars,
                   failureVars>>

(* The frame has been handled; an HTTP request is answered.                    *)
Done(c) ==
    /\ over' = over \cup {doing[c].frame}
    /\ doing' = [doing EXCEPT ![c] = Nothing]
    /\ conn' = IF c \in Posts THEN [conn EXCEPT ![c] = "over"] ELSE conn
    /\ UNCHANGED joined

(* On to the next call; id is that of the frame's row.                        *)
Onward(c, id) ==
    LET order == Order(kind[doing[c].frame]) IN
    \E i \in DOMAIN order :
        /\ order[i] = doing[c].call
        /\ IF i = Len(order)
           THEN Done(c)
           ELSE /\ doing' = [doing EXCEPT ![c] =
                                [frame |-> @.frame, call |-> order[i + 1], id |-> id]]
                /\ UNCHANGED <<conn, joined, over>>

Debited(f) == paidIn' = [paidIn EXCEPT ![f] = IF @ = "unpaid" THEN room ELSE @]

(* Fault: text and amount are left to from_superchat, after the charge.        *)
ChargeUnchecked(c) ==
    LET f == doing[c].frame IN
    /\ At(c, "charge") /\ c \notin broken
    /\ Debited(f)
    /\ IF fit[f] THEN Onward(c, 0) ELSE Done(c)
    /\ UNCHANGED <<transcriptVars, room, broken, stranded, streamVars, failureVars>>
(* Donation refuses what it does not accept, and apply what the balance does    *)
(* not cover; the viewer is told.                                            *)
Charge(c) ==
    LET f == doing[c].frame IN
    /\ At(c, "charge") /\ c \notin broken
    /\ \/ fit[f] /\ Debited(f) /\ Onward(c, 0)
       \/ Done(c) /\ UNCHANGED paidIn
    /\ UNCHANGED <<transcriptVars, room, broken, stranded, streamVars, failureVars>>

(* The session refuses the statement: no error the pump knows, the connection  *)
(* ends.                                                                     *)
ChargeRefused(c) ==
    /\ At(c, "charge") /\ c \in broken
    /\ stranded' = stranded \cup {doing[c].frame}
    /\ Closed(c) /\ UNCHANGED over
    /\ UNCHANGED <<transcriptVars, room, paidIn, streamVars, failureVars>>

(* The id of the row of c's frame: a superchat takes it now.                   *)
RowId(c) == IF doing[c].id = 0 THEN lastId + 1 ELSE doing[c].id
RowOf(c) == IF kind[doing[c].frame] = "message" THEN Chat ELSE Tip

(* Fault: nobody waits for the append.                                        *)
RecordLeft(c) ==
    /\ At(c, "record")
    /\ lastId' = IF doing[c].id = 0 THEN lastId + 1 ELSE lastId
    /\ Onward(c, RowId(c))
    /\ UNCHANGED <<table, unrecorded, broken, failureVars, page, room, payVars, streamVars>>
(* _record: whatever happens, the frame goes on; a statement that fails may     *)
(* have been committed, and may leave the session unusable.                   *)
Record(c) ==
    /\ At(c, "record")
    /\ lastId' = IF doing[c].id = 0 THEN lastId + 1 ELSE lastId
    /\ Onward(c, RowId(c))
    /\ \/ c \notin broken /\ Recorded(RowId(c), RowOf(c)) /\ UNCHANGED <<broken, failureVars>>
       \/ c \in broken /\ NotRecorded(RowId(c)) /\ UNCHANGED <<broken, failureVars>>
       \/ /\ c \notin broken /\ DbFail
          /\ NotRecorded(RowId(c)) \/ Recorded(RowId(c), RowOf(c))
          /\ broken' \in {broken, broken \cup {c}}
    /\ UNCHANGED <<page, room, payVars, streamVars>>

Air(event) == aired' = Append(aired, event)
Event(c) == [kind |-> kind[doing[c].frame], frame |-> doing[c].frame, id |-> doing[c].id]

(* The frame appears in the room.                                            *)
Show(c) ==
    /\ At(c, "show")
    /\ Air(Event(c))
    /\ Onward(c, doing[c].id)
    /\ UNCHANGED <<transcriptVars, room, broken, payVars, buffer, asked, failureVars>>

Offered(c) == buffer' = Append(buffer, [frame |-> doing[c].frame, id |-> doing[c].id])
Ask(f, id) == asked' = Append(asked, [frame |-> f, repliedTo |-> id, id |-> 0, stage |-> "asked"])

(* candidates.add.                                                           *)
Offer(c) ==
    /\ At(c, "offer")
    /\ Offered(c) /\ Onward(c, doing[c].id)
    /\ UNCHANGED <<transcriptVars, room, broken, payVars, aired, asked, failureVars>>

(* Fault: thanks point at the row of the superchat.                           *)
RequestReply(c) ==
    /\ At(c, "request")
    /\ Ask(doing[c].frame, doing[c].id) /\ Onward(c, doing[c].id)
    /\ UNCHANGED <<transcriptVars, room, broken, payVars, aired, buffer, failureVars>>
(* generation.request, for thanks.                                           *)
RequestThanks(c) ==
    /\ At(c, "request")
    /\ Ask(doing[c].frame, NoReply) /\ Onward(c, doing[c].id)
    /\ UNCHANGED <<transcriptVars, room, broken, payVars, aired, buffer, failureVars>>

(* A call of Redis or Kafka raises, done or not, or the process dies, or the    *)
(* stream of the connection breaks and its handler is cancelled.  A superchat  *)
(* may be sent again, with its key.                                          *)
BreakOff(c) ==
    LET f == doing[c].frame IN
    /\ conn[c] = "on" /\ f # NoFrame /\ Fail
    /\ Closed(c)
    /\ over' = IF kind[f] = "message" THEN over \cup {f} ELSE over
    /\ \/ At(c, "charge") /\ fit[f] /\ Debited(f) /\ UNCHANGED streamVars
       \/ /\ UNCHANGED paidIn
          /\ \/ UNCHANGED streamVars
             \/ At(c, "show") /\ Air(Event(c)) /\ UNCHANGED <<buffer, asked>>
             \/ At(c, "offer") /\ Offered(c) /\ UNCHANGED <<aired, asked>>
             \/ At(c, "request") /\ Ask(f, NoReply) /\ UNCHANGED <<aired, buffer>>
    /\ UNCHANGED <<transcriptVars, room, stranded>>

-----------------------------------------------------------------------------
(* The persona.                                                              *)

(* The idle worker takes all candidates and asks for an answer to the best.    *)
PickBest ==
    LET batch == [i \in DOMAIN buffer |-> content[buffer[i].frame]]
    IN  /\ buffer # <<>>
        /\ \E best \in DOMAIN buffer :
            best = Best(batch) /\ Ask(buffer[best].frame, buffer[best].id)
        /\ buffer' = <<>>
        /\ UNCHANGED <<transcriptVars, room, connectionVars, payVars, aired, failureVars>>

(* The thanks go to one worker and the replies to another, each in order.       *)
Handled(i) == asked[i].stage \in {"said", "silent"}
Turn(i) == \A j \in 1..(i - 1) :
            (asked[j].repliedTo = NoReply <=> asked[i].repliedTo = NoReply) => Handled(j)

(* The worker records the reply, or fails to (the statement, or an empty text)   *)
(* and goes on, or says nothing: no slot, overtaken, an error of the model.    *)
RecordReply(i) ==
    /\ asked[i].stage = "asked" /\ Turn(i)
    /\ \/ /\ lastId' = lastId + 1
          /\ asked' = [asked EXCEPT ![i] = [frame |-> @.frame, repliedTo |-> @.repliedTo,
                                            id |-> lastId + 1, stage |-> "recorded"]]
          /\ \/ Recorded(lastId + 1, Said(asked[i].repliedTo)) /\ UNCHANGED failureVars
             \/ NotRecorded(lastId + 1) /\ DbFail
       \/ /\ asked' = [asked EXCEPT ![i] = [@ EXCEPT !.stage = "silent"]]
          /\ UNCHANGED <<recordVars, failureVars>>
    /\ UNCHANGED <<page, room, connectionVars, payVars, aired, buffer>>

(* It publishes it; the call may raise, done or not.                          *)
SayReply(i) ==
    LET event == [kind |-> "reply", frame |-> asked[i].frame, id |-> asked[i].id] IN
    /\ asked[i].stage = "recorded"
    /\ \/ /\ asked' = [asked EXCEPT ![i] = [@ EXCEPT !.stage = "said"]]
          /\ Air(event) /\ UNCHANGED failureVars
       \/ /\ asked' = [asked EXCEPT ![i] = [@ EXCEPT !.stage = "silent"]]
          /\ Fail /\ (UNCHANGED aired \/ Air(event))
    /\ UNCHANGED <<transcriptVars, room, connectionVars, payVars, buffer>>

ReadHistory(r, limit) ==
    /\ ReadPage(r, limit)
    /\ UNCHANGED <<room, connectionVars, payVars, streamVars, failureVars>>

-----------------------------------------------------------------------------

Connect(c) == Accept(c) \/ Authenticate(c) \/ EnsureOpen(c) \/ Subscribe(c)
Handle(c) ==
    \/ \E f \in Frames : Receive(c, f)
    \/ Charge(c)
    \/ ChargeRefused(c)
    \/ Record(c)
    \/ Show(c)
    \/ Offer(c)
    \/ RequestThanks(c)

ConversationNext ==
    \/ Transition
    \/ \E c \in Clients : Connect(c) \/ Handle(c) \/ Leave(c) \/ BreakOff(c)
    \/ PickBest
    \/ \E i \in DOMAIN asked : RecordReply(i) \/ SayReply(i)
    \/ \E r \in Readers, limit \in Limits : ReadHistory(r, limit)

ConversationSpec == ConversationInit /\ [][ConversationNext]_conversationVars

-----------------------------------------------------------------------------

Shown(f) == {i \in DOMAIN aired : aired[i].frame = f /\ aired[i].kind # "reply"}
Replies(f) == {i \in DOMAIN aired : aired[i].frame = f /\ aired[i].kind = "reply"}

(* service.py:116, generation.py:243: who has been in the room and reloads      *)
(* finds what was said there; a message or a reply is missing only if its own   *)
(* append failed, with a log line.                                           *)
HeardIsReadable == \A i \in DOMAIN aired : aired[i].id \in DOMAIN table \cup unrecorded

(* service.py:116-117: a reply points at a viewer's message, not at another     *)
(* reply or a superchat, and at one that is in the table before it unless its   *)
(* own append failed: the pairs for training hold together.                   *)
ReplyPointsBack ==
    \A i \in DOMAIN table :
        LET to == table[i].repliedTo IN
        to # NoReply => IF to \in DOMAIN table THEN table[to] = Chat ELSE to \in unrecorded

(* service.py:149-153, router.py:168: the order is the contract.  Nothing is    *)
(* debited for a room that has never been live, nothing is shown that is not  *)
(* paid, and no thanks are heard before the display, with any retries.        *)
OrderIsKept ==
    \A f \in {g \in Frames : kind[g] = "superchat"} :
        /\ \A i \in Replies(f) : \E j \in Shown(f) : j < i
        /\ Shown(f) # {} => paidIn[f] # "unpaid"
        /\ paidIn[f] # "pending"

(* service.py:151: what has been debited is always shown and asked thanks for,  *)
(* whatever became of the transcript; only a call that broke off prevents it.   *)
ChargedIsShown ==
    failures = 0 => \A c \in Clients, f \in Frames :
        paidIn[f] # "unpaid" /\ sender[f] = c /\ doing[c].frame # f =>
            Shown(f) # {} /\ \E i \in DOMAIN asked : asked[i].frame = f

(* ws/router.py:11-12: the subscription precedes everything the connection       *)
(* sends, so a viewer gets every frame of their own back, in the order of all.  *)
EchoReaches ==
    \A c \in Sockets : doing[c].call \in {"offer", "request"} =>
        \E i \in (joined[c] + 1)..Len(aired) : aired[i] = Event(c)

(* domain/topic.py: whichever of the batches the worker finds in the buffer,     *)
(* the topics divide the comments into conversations; a question is answered    *)
(* before what is none, however long the other is and however many say the     *)
(* same; and nobody is passed over who is at least as good in all three        *)
(* respects and better in one, or as good in all and earlier.                 *)
ChoiceIsJust == buffer # <<>> => AllTalks /\ AllAsked /\ AllJust

(* service.py:94-97: a database that stumbles for a moment over a record must    *)
(* not make a superchat fail.                                                *)
RecordNeverBlocksPay == stranded = {}

(* domain/room.py:103: a room takes superchats only while it is live.         *)
PaidWhileLive == \A f \in Frames : paidIn[f] \in {"unpaid", "live"}
=============================================================================
