----------------------------- MODULE McpClient -----------------------------
(***************************************************************************)
(* The client of one pool connection: it negotiates the protocol, then     *)
(* makes one request at a time, collects the pages of a list or waits for  *)
(* notifications.  The pool at the other end answers when it likes, says   *)
(* other things in between, or goes away.                                  *)
(*                                                                         *)
(* The reader of a connection is taken for each operation and put back     *)
(* only when its answer was read: an operation that times out, fails or is *)
(* dropped leaves the connection without one, and closes it.               *)
(***************************************************************************)
EXTENDS Integers, Sequences, FiniteSets

CONSTANTS
    Sessions,           \* clients, with a connection each
    MaxAsides           \* bound: frames of the pool that answer nothing

ASSUME McpClientAssumption == MaxAsides \in Nat

VARIABLES
    sessions,           \* the client's side
    links,              \* the connection and the pool's side
    asides              \* frames that answered nothing so far

mcpClientVars == <<sessions, links, asides>>

Pages == 1..3                                   \* cursors name pages, the first page is 1
Awaiting == {"discover", "initialize", "call", "list"}
Asides == {"notice", "ping", "ask", "junk", "stray"}

McpClientTypeOK ==
  \A s \in Sessions :
    /\ sessions[s].at \in {"idle", "dialing", "ready", "listen", "done"} \cup Awaiting
    /\ sessions[s].reader \in {"none", "open", "taken"}
    /\ sessions[s].prefers \in {"auto", "legacy", "modern"}
    /\ sessions[s].era \in {"none", "legacy", "modern"}
    /\ sessions[s].next \in Nat /\ sessions[s].cursors \subseteq Pages
    /\ sessions[s].got \in Seq(Pages) /\ sessions[s].listed \in Seq(Pages)
    /\ links[s].up \in BOOLEAN /\ links[s].owed \subseteq Nat /\ links[s].unread \subseteq Nat
    /\ \A i \in DOMAIN links[s].wrote : links[s].wrote[i].kind \in Awaiting \cup {"initialized"}

\* A workload: the protocol version configured, the transport, the operations
\* of the caller and how the pages of the list follow each other (0 ends it).
McpClientInit(workloads) ==
  /\ \E given \in [Sessions -> workloads] :
       /\ sessions = [s \in Sessions |->
            [at |-> "idle", reader |-> "none", prefers |-> given[s].prefers,
             transport |-> given[s].transport, todo |-> given[s].todo, era |-> "none", next |-> 1,
             cursors |-> {}, got |-> <<>>, listed |-> <<>>]]
       /\ links = [s \in Sessions |->
            [up |-> FALSE, frames |-> <<>>, owed |-> {}, unread |-> {}, wrote |-> <<>>,
             follows |-> given[s].follows]]
  /\ asides = 0

----------------------------------------------------------------------------
(* Requests.                                                               *)

\* request: the reader is taken, the id is new and the frame says which era it is of.
Asked(session, kind) ==
  [session EXCEPT !.at = kind, !.reader = "taken", !.next = @ + 1]

\* Every request of a modern connection names its version, and so does the discovery.
StampedFrame(session, kind) == kind = "discover" \/ session.era = "modern"

Sent(link, session, kind, cursor) ==
  [link EXCEPT !.owed = IF link.up THEN @ \cup {session.next} ELSE @,
               !.unread = @ \cup {session.next},
               !.wrote = Append(@, [kind |-> kind, id |-> session.next, cursor |-> cursor,
                                    stamped |-> StampedFrame(session, kind)])]

Request(s, session, link, kind, cursor) ==
  /\ sessions' = [sessions EXCEPT ![s] = Asked(session, kind)]
  /\ links' = [links EXCEPT ![s] = Sent(link, session, kind, cursor)]
  /\ UNCHANGED asides

\* The operation ends and the connection stays.
Settle(s, session, link) ==
  /\ sessions' = [sessions EXCEPT ![s] = [session EXCEPT !.at = "ready", !.reader = "open",
                                                         !.cursors = {}, !.got = <<>>]]
  /\ links' = [links EXCEPT ![s] = link]
  /\ UNCHANGED asides

\* The operation ends and its connection with it; a handshake takes the client along.
RetiredReader(session) ==
  [session EXCEPT !.at = IF session.era = "none" THEN "done" ELSE "ready", !.reader = "none",
                  !.cursors = {}, !.got = <<>>]

Retire(s) ==
  /\ sessions' = [sessions EXCEPT ![s] = RetiredReader(@)]
  /\ links' = [links EXCEPT ![s].up = FALSE, ![s].frames = <<>>, ![s].owed = {}]
  /\ UNCHANGED asides

Handshake(session) == IF session.prefers = "legacy" THEN "initialize" ELSE "discover"

\* A configuration that asks for what its transport cannot do is refused; auto means legacy there.
Connect(s) ==
  LET session == sessions[s] IN
  /\ session.at = "idle"
  /\ sessions' = [sessions EXCEPT ![s] =
       CASE session.transport = "sse" /\ session.prefers = "modern" -> [@ EXCEPT !.at = "done"]
         [] session.transport = "sse" /\ session.prefers # "modern" ->
              [@ EXCEPT !.at = "dialing", !.prefers = "legacy"]
         [] OTHER -> [@ EXCEPT !.at = "dialing"]]
  /\ UNCHANGED <<links, asides>>

\* The server is started and its socket accepts; until then the client sleeps and tries again.
Dial(s) ==
  /\ sessions[s].at = "dialing"
  /\ \/ Request(s, sessions[s], [links[s] EXCEPT !.up = TRUE], Handshake(sessions[s]), 0)
     \/ Retire(s)

----------------------------------------------------------------------------
(* Answers.                                                                *)

\* initialize answered, and the client used without the notification.
InitializedQuietly(s, session, link) == Settle(s, [session EXCEPT !.era = "legacy"], link)

\* initialize answered: its notification goes out before the client is used.
Initialized(s, session, link) ==
  \/ Settle(s, [session EXCEPT !.era = "legacy"],
            [link EXCEPT !.wrote = Append(@, [kind |-> "initialized", id |-> 0, cursor |-> 0,
                                              stamped |-> FALSE])])
  \/ ~link.up /\ Retire(s)

\* What a discovery says: it offers modern, or says for certain that there is none.
OffersModern(body) == body = "modern"
RulesOutModern(body) == body \in {"older", "unsupported"}

\* discover answered: a definitive no, or an offer of older versions, allows initialize
\* on the same connection; nothing else does, and nothing does when modern is pinned.
Discovered(s, session, link, body) ==
  CASE OffersModern(body) -> Settle(s, [session EXCEPT !.era = "modern"], link)
    [] RulesOutModern(body) /\ session.prefers = "auto" ->
         Request(s, session, link, "initialize", 0)
    [] OTHER -> Retire(s)

\* A page, without the check of the cursors.
PagedForever(s, session, link, body) ==
  LET got == Append(session.got, body.page) IN
  IF body.next = 0 THEN Settle(s, [session EXCEPT !.listed = got], link)
  ELSE Request(s, [session EXCEPT !.got = got, !.cursors = @ \cup {body.next}], link, "list", body.next)

\* A page: its cursor must be new, and the list is whole when it has none.
Paged(s, session, link, body) ==
  LET got == Append(session.got, body.page) IN
  CASE body.next = 0 -> Settle(s, [session EXCEPT !.listed = got], link)
    [] body.next \in session.cursors -> Settle(s, session, link)
    [] OTHER -> Request(s, [session EXCEPT !.got = got, !.cursors = @ \cup {body.next}],
                        link, "list", body.next)

\* An initialize result of a version the client knows, with its capabilities.
Completes(body) == body = "ok"

\* The answer the client waits for: the reader is put back before it is looked at.
Answered(s, session, link, frame) ==
  CASE session.at = "discover" -> Discovered(s, session, link, frame.body)
    [] session.at = "initialize" /\ Completes(frame.body) -> Initialized(s, session, link)
    [] session.at = "initialize" /\ ~Completes(frame.body) -> Retire(s)
    [] session.at = "list" /\ frame.kind = "result" -> Paged(s, session, link, frame.body)
    [] OTHER -> Settle(s, session, link)

\* What no client can read, what asks the client, and what answers it.
JunkFrame(frame) == frame.kind = "junk"
Asks(frame) == frame.kind \in {"ping", "ask"}
AnswersFrame(frame) == frame.kind \in {"result", "error"}

\* The next frame.  A request of the server is answered in place; a notification is
\* skipped unless the client waits for one; what is no answer ends the connection.
Receive(s) ==
  LET session == sessions[s]
      frame == Head(links[s].frames)
      rest == [links[s] EXCEPT !.frames = Tail(@)] IN
  /\ session.reader = "taken"
  /\ links[s].frames # <<>>
  /\ \/ /\ Asks(frame) \/ (frame.kind = "notice" /\ session.at # "listen")
        /\ links' = [links EXCEPT ![s] = rest]
        /\ UNCHANGED <<sessions, asides>>
     \/ frame.kind = "notice" /\ session.at = "listen" /\ Settle(s, session, rest)
     \/ /\ JunkFrame(frame) \/ (AnswersFrame(frame) /\ (session.at = "listen" \/ frame.id # session.next - 1))
        /\ Retire(s)
     \/ /\ AnswersFrame(frame) /\ session.at # "listen" /\ frame.id = session.next - 1
        /\ Answered(s, session, [rest EXCEPT !.unread = @ \ {frame.id}], frame)

\* The pool went away: the client reads the end of the stream.
EndOfStream(s) ==
  /\ sessions[s].reader = "taken" /\ links[s].frames = <<>> /\ ~links[s].up
  /\ Retire(s)

\* The reader is put back after the deadline.
ExpireAndKeep(s) ==
  /\ sessions[s].reader = "taken"
  /\ Settle(s, [sessions[s] EXCEPT !.era = IF @ = "none" THEN "legacy" ELSE @], links[s])

\* The deadline of the request, of the whole list or of the connection; a wait for
\* notifications has none, but its caller may drop it like any other operation.
Expire(s) ==
  /\ sessions[s].reader = "taken" \/ sessions[s].at = "dialing"
  /\ Retire(s)

\* Cancellation is refused: the pool would not translate the id it names.
Refused(operation) == operation = "cancel"

\* The next operation of the caller; on a connection that is closed nothing is done.
Perform(s) ==
  LET session == [sessions[s] EXCEPT !.todo = Tail(@)]
      operation == Head(sessions[s].todo) IN
  /\ sessions[s].at = "ready" /\ sessions[s].todo # <<>>
  /\ \/ /\ Refused(operation) \/ session.reader = "none"
        /\ sessions' = [sessions EXCEPT ![s] = session]
        /\ UNCHANGED <<links, asides>>
     \/ /\ operation \in {"call", "list"} /\ session.reader = "open"
        /\ Request(s, session, links[s], operation, 0)
     \/ /\ operation = "listen" /\ session.reader = "open"
        /\ sessions' = [sessions EXCEPT ![s] = [session EXCEPT !.at = "listen", !.reader = "taken"]]
        /\ UNCHANGED <<links, asides>>

----------------------------------------------------------------------------
(* The pool.                                                               *)

Written(s, id) ==
  LET wrote == links[s].wrote IN wrote[CHOOSE i \in DOMAIN wrote : wrote[i].id = id]

\* What the pool may answer to a request; a list is paged as the server has it.
Bodies(s, id) ==
  CASE Written(s, id).kind = "discover" ->
         [kind : {"result"}, body : {"modern", "older", "malformed"}]
           \cup [kind : {"error"}, body : {"unsupported", "refused"}]
    [] Written(s, id).kind = "initialize" ->
         [kind : {"result"}, body : {"ok", "malformed"}] \cup {[kind |-> "error", body |-> "refused"]}
    [] Written(s, id).kind = "list" ->
         LET page == IF Written(s, id).cursor = 0 THEN 1 ELSE Written(s, id).cursor IN
         {[kind |-> "result", body |-> [page |-> page, next |-> links[s].follows[page]]],
          [kind |-> "error", body |-> "refused"]}
    [] OTHER -> {[kind |-> "result", body |-> "ok"], [kind |-> "error", body |-> "refused"]}

Reply(s) ==
  \E id \in links[s].owed, answer \in UNION {Bodies(s, i) : i \in links[s].owed} :
    /\ answer \in Bodies(s, id)
    /\ links' = [links EXCEPT ![s].owed = @ \ {id},
         ![s].frames = Append(@, [kind |-> answer.kind, id |-> id, body |-> answer.body])]
    /\ UNCHANGED <<sessions, asides>>

Interject(s) ==
  /\ links[s].up /\ asides < MaxAsides
  /\ \E aside \in Asides :
       links' = [links EXCEPT ![s].frames =
         Append(@, [kind |-> IF aside = "stray" THEN "result" ELSE aside, id |-> 0, body |-> "ok"])]
  /\ asides' = asides + 1
  /\ UNCHANGED sessions

HangUp(s) ==
  /\ links[s].up
  /\ links' = [links EXCEPT ![s].up = FALSE, ![s].owed = {}]
  /\ UNCHANGED <<sessions, asides>>

McpClientNext ==
  \E s \in Sessions :
    \/ Connect(s) \/ Dial(s) \/ Perform(s)
    \/ Receive(s) \/ EndOfStream(s) \/ Expire(s)
    \/ Reply(s) \/ Interject(s) \/ HangUp(s)

McpClientAtRest ==
  \A s \in Sessions :
    sessions[s].at = "done" \/ (sessions[s].at = "ready" /\ sessions[s].todo = <<>>)

----------------------------------------------------------------------------
(* Properties.                                                             *)

\* A connection that can be used again owes its client nothing: every request
\* written on it had its answer read, so no late answer can meet a later request.
\* The deadlines, the drops and the reconnects around request rely on it.
IdleIsClean ==
  \A s \in Sessions : sessions[s].reader = "open" => links[s].unread = {}

\* No operation reaches a server before the handshake of its connection is
\* complete, in the order of one era: discover alone and stamped requests, or
\* initialize, its notification and requests without a stamp.
HandshakeFirst ==
  \A s \in Sessions :
    LET wrote == links[s].wrote IN
    \A i \in DOMAIN wrote : wrote[i].kind \in {"call", "list"} =>
      IF wrote[i].stamped
      THEN /\ wrote[1].kind = "discover"
           /\ \A j \in 2..i : wrote[j].kind \in {"call", "list"} /\ wrote[j].stamped
      ELSE \E j \in 1..(i - 1) :
             /\ wrote[j].kind = "initialized"
             /\ \A k \in (j + 1)..i : wrote[k].kind \in {"call", "list"} /\ ~wrote[k].stamped

\* The pages from the first one to the one that has no cursor, each where the one
\* before it points; pages that run in a circle have no such chain.
IsChain(pages, follows) ==
  /\ pages[1] = 1 /\ follows[pages[Len(pages)]] = 0
  /\ \A i \in 1..(Len(pages) - 1) : pages[i + 1] = follows[pages[i]]

\* A list that is returned is every page once and in order, and a list whose
\* cursors run in a circle is not collected for ever.
ListsAreWhole ==
  \A s \in Sessions :
    /\ sessions[s].listed # <<>> => IsChain(sessions[s].listed, links[s].follows)
    /\ Len(sessions[s].got) <= Cardinality(Pages)

\* A client between operations is clean, has shaken hands and has whole lists
\* (mcp_client.rs).
ClientSafety == IdleIsClean /\ HandshakeFirst /\ ListsAreWhole
=============================================================================
