-------------------------------- MODULE Rml --------------------------------
(***************************************************************************)
(* The reliable message layer of a relay: rml_policy_decide with its seen, *)
(* status and thread caches, called by source_handle_rml_frame for every   *)
(* RML frame.  The air may lose, repeat and reorder frames.  A text is the *)
(* sequence of edits it went through: edit k of a thread is sent either as *)
(* a delta on edit k - 1 or as the full text of the first k edits.         *)
(*                                                                         *)
(* No entry of the thread cache expires: rml_thread_expire looks at        *)
(* soft_expire_ms, which rml_thread_store sets from soft_ttl_s, and        *)
(* rml_decode leaves soft_ttl_s 0: the 28 bytes of the header on the air   *)
(* have no place for it.                                                   *)
(***************************************************************************)
EXTENDS Naturals, SequencesExt

CONSTANTS RmlThreads,   \* (sender_id, thread_id) pairs, small numbers
          MaxEdits,     \* edits of a thread (bound)
          SeenSize,     \* RML_SEEN_CACHE_SIZE
          StatusSize,   \* RML_STATUS_CACHE_SIZE
          ThreadSize,   \* RML_THREAD_CACHE_SIZE
          RmlMod        \* tb_millis() counts modulo RmlMod, 2^32

ASSUME RmlAssumption ==
  /\ {MaxEdits, SeenSize, StatusSize, ThreadSize, RmlMod} \subseteq Nat \ {0}
  /\ RmlThreads \subseteq Nat

VARIABLES rmlSeen,     \* s_seen, s_seen_next
          rmlStatus,   \* s_status
          rmlThread,   \* s_thread_cache
          rmlNow,      \* the pass's tb_millis()
          rmlRelay     \* the text of the last frame pushed to the TX ring

rmlVars == <<rmlSeen, rmlStatus, rmlThread, rmlNow, rmlRelay>>

Edits == 1 .. MaxEdits
RmlUnused == [used |-> FALSE]

\* The text after k edits of thread t, as its sender has it.
TrueText(k) == [e \in 1 .. k |-> e]

\* rml_message_t, as far as the decision looks: a whole text (RML_TYPE_CHAT,
\* STATUS or THREAD_SYNC) or a delta, with the intent RML_INTENT_STATUS or another.
RmlFrames == [form : {"text", "delta"}, status : BOOLEAN, thread : RmlThreads,
              edit : Edits, supersedes : BOOLEAN]

MsgId(m) == <<m.thread, m.edit>>

RmlInit ==
  /\ rmlSeen = [ids |-> [i \in 1 .. SeenSize |-> <<>>], next |-> 1]
  /\ rmlStatus = [i \in 0 .. StatusSize - 1 |-> RmlUnused]
  /\ rmlThread = [slots |-> [i \in 1 .. ThreadSize |-> RmlUnused], next |-> 1]
  /\ rmlNow = 0
  /\ rmlRelay = <<>>

RingAfter(i, size) == IF i = size THEN 1 ELSE i + 1

RmlSeen(id) == \E i \in DOMAIN rmlSeen.ids : rmlSeen.ids[i] = id

MarkSeen(id) ==
  [ids |-> [rmlSeen.ids EXCEPT ![rmlSeen.next] = id],
   next |-> RingAfter(rmlSeen.next, SeenSize)]

-----------------------------------------------------------------------------
StatusOf(t) == {i \in DOMAIN rmlStatus : rmlStatus[i].used /\ rmlStatus[i].of = t}

StatusCurrent(m) == \A i \in StatusOf(m.thread) : m.edit > rmlStatus[i].newest

\* Its own slot, else the first free one, else the one its id maps to.
StatusSlot(t) ==
  LET free == {i \in DOMAIN rmlStatus : ~rmlStatus[i].used} IN
  IF StatusOf(t) # {} THEN Min(StatusOf(t))
  ELSE IF free # {} THEN Min(free) ELSE t % StatusSize

\* rml_status_is_current_or_newer, when it says yes.
StatusNoted(m) ==
  IF m.status
  THEN [rmlStatus EXCEPT ![StatusSlot(m.thread)] =
          [used |-> TRUE, of |-> m.thread, newest |-> m.edit]]
  ELSE rmlStatus

-----------------------------------------------------------------------------
EntriesOf(t) == {i \in DOMAIN rmlThread.slots :
                   rmlThread.slots[i].used /\ rmlThread.slots[i].of = t}

\* Mutant: a delta is applied to whatever the thread last was.
BaseOf_Latest(m) == EntriesOf(m.thread)

\* rml_thread_find_msg of msg->prev_id.
BaseOf(m) == {i \in EntriesOf(m.thread) : rmlThread.slots[i].edit + 1 = m.edit}

SameMsg(m) == {i \in EntriesOf(m.thread) : rmlThread.slots[i].edit = m.edit}

\* rml_thread_store: in place when the message is there, else the next slot of
\* the ring, once a superseding frame has emptied its thread.
ThreadStored(m, text) ==
  LET entry == [used |-> TRUE, of |-> m.thread, edit |-> m.edit, text |-> text, at |-> rmlNow]
      kept == [i \in DOMAIN rmlThread.slots |->
                 IF m.supersedes /\ i \in EntriesOf(m.thread)
                 THEN RmlUnused ELSE rmlThread.slots[i]]
  IN  IF SameMsg(m) # {}
      THEN [rmlThread EXCEPT !.slots[Min(SameMsg(m))] = entry]
      ELSE [slots |-> [kept EXCEPT ![rmlThread.next] = entry],
            next |-> RingAfter(rmlThread.next, ThreadSize)]

\* rml_thread_cache_get: the latest time wins, the highest slot among equals.
Newest(thread, t) ==
  CHOOSE i \in DOMAIN thread.slots :
    LET e == thread.slots[i] IN
    /\ e.used /\ e.of = t
    /\ \A j \in DOMAIN thread.slots :
         LET f == thread.slots[j] IN
         f.used /\ f.of = t => f.at < e.at \/ (f.at = e.at /\ j <= i)

\* rml_handle_thread_state: what it makes of the frame, if anything.
Rebuilt(m) ==
  IF m.form # "delta" THEN {TrueText(m.edit)}
  ELSE {rmlThread.slots[i].text \o <<m.edit>> : i \in BaseOf(m)}

-----------------------------------------------------------------------------
\* Seen, a status that is not newer, or a delta whose base is not there and that
\* is no status: nothing changes (the repair request is noted in s_repair_cache,
\* which nobody reads), and the delta stays unseen.
Refused(m) ==
  \/ RmlSeen(MsgId(m))
  \/ IF m.status THEN ~StatusCurrent(m) ELSE Rebuilt(m) = {}

RmlRefuse ==
  /\ {m \in RmlFrames : Refused(m)} # {}
  /\ UNCHANGED rmlVars

\* A status that the queue's pressure drops, or a delta with that intent whose
\* base is not there: it has been noted, so it is never current again.
RmlPressed(m) ==
  /\ ~RmlSeen(MsgId(m))
  /\ m.status /\ StatusCurrent(m)
  /\ rmlStatus' = StatusNoted(m)
  /\ UNCHANGED <<rmlSeen, rmlThread, rmlNow, rmlRelay>>

\* Accepted: stored, marked, and relayed unless the TTL, the queue or the
\* intent says no (relay).  A delta travels on as the text of the thread.
RmlAccept(m, relay) ==
  /\ ~RmlSeen(MsgId(m))
  /\ m.status => StatusCurrent(m)
  /\ \E text \in Rebuilt(m) :
       /\ rmlThread' = ThreadStored(m, text)
       /\ rmlRelay' = IF ~relay THEN rmlRelay
                      ELSE IF m.form # "delta" THEN text
                      ELSE rmlThread'.slots[Newest(rmlThread', m.thread)].text
  /\ rmlStatus' = StatusNoted(m)
  /\ rmlSeen' = MarkSeen(MsgId(m))
  /\ UNCHANGED rmlNow

RmlTick ==
  /\ rmlNow' = (rmlNow + 1) % RmlMod
  /\ UNCHANGED <<rmlSeen, rmlStatus, rmlThread, rmlRelay>>

RmlNext ==
  \/ \E m \in RmlFrames : RmlPressed(m) \/ \E relay \in BOOLEAN : RmlAccept(m, relay)
  \/ RmlRefuse \/ RmlTick

-----------------------------------------------------------------------------
RmlTypeOK ==
  /\ rmlSeen.next \in 1 .. SeenSize /\ rmlThread.next \in 1 .. ThreadSize
  /\ \A i \in 0 .. StatusSize - 1 :
       rmlStatus[i].used => rmlStatus[i].of \in RmlThreads /\ rmlStatus[i].newest \in Edits
  /\ rmlNow \in 0 .. RmlMod - 1

\* Whatever order and however often the frames of a thread arrive, and whatever
\* the caches have evicted, each text in the thread cache is the one its sender
\* gave that message (rml_policy.c:409-443), and what is relayed is a text its
\* thread really had, if not always the one of that message.
TextsTrue ==
  /\ \A i \in DOMAIN rmlThread.slots :
       LET e == rmlThread.slots[i] IN e.used => e.text = TrueText(e.edit)
  /\ \E k \in 0 .. MaxEdits : rmlRelay = TrueText(k)
=============================================================================
