----------------------------- MODULE JournalText -----------------------------
(***************************************************************************)
(* The text of the three journals of one instance - trade, decision and    *)
(* error - and the position belief that the trade journal tells about.     *)
(*                                                                         *)
(* A journal is appended to in place, so an append that is cut (power      *)
(* loss, a full disk, a failing fsync) leaves nothing, a part of a line, a *)
(* line without its newline or the whole line.  The next append goes to    *)
(* the end of whatever is there.  The trade journal is also rewritten,     *)
(* when a command is settled, and every journal when it is rotated; the    *)
(* two steps of a rewrite are in InstanceFiles, here it is one step.       *)
(*                                                                         *)
(* Abstracted: what a line says but its event and ticket; prices, side,    *)
(* and the scores of a decision.  The wait for an ack, stale acks and EA   *)
(* restarts are in ExecutionChannel.  The terminal (external) is taken to  *)
(* leave the rest of a partly closed position its ticket, as the EA's ack  *)
(* and reduce_position_volume do.                                          *)
(***************************************************************************)
EXTENDS Naturals, FiniteSets

CONSTANTS
    MaxEntries,     \* bound on the lines that are ever written
    MaxCommands,    \* bound on command ids
    MaxTickets,     \* bound on the tickets the terminal hands out
    FullVolume,     \* the volume of every OPEN
    MaxFaults       \* bound on kills and cut appends together

ASSUME JournalAssumption ==
    /\ MaxEntries \in Nat /\ MaxCommands \in Nat /\ MaxTickets \in Nat
    /\ FullVolume \in Nat \ {0} /\ MaxFaults \in Nat

Entry   == 1..MaxEntries        \* lines in the order of their appends
NoEntry == 0
Torn    == MaxEntries + 1       \* a last line that is not an entry
Ticket  == 1..MaxTickets
NoTicket == 0
Volume  == 0..FullVolume

Journal     == {"trade", "decision", "error"}
IntentEvent == {"OPEN", "MODIFY", "REDUCE", "CLOSE"}
Event       == IntentEvent \cup {"EXTERNAL", "PARTIAL", "DECISION", "ERROR"}

\* A line: what it tells of which ticket.  REDUCE is a CLOSE of a part.
Line   == [event : Event \cup {"NONE"}, ticket : Ticket \cup {NoTicket}]
NoLine == [event |-> "NONE", ticket |-> NoTicket]

\* The lines of the decision and of the error journal.
DecisionLine == [event |-> "DECISION", ticket |-> NoTicket]
ErrorLine    == [event |-> "ERROR", ticket |-> NoTicket]

JournalOf(line) ==
    IF line.event = "DECISION" THEN "decision"
    ELSE IF line.event = "ERROR" THEN "error" ELSE "trade"

(***************************************************************************)
(* The text of a journal: its readable lines, whether some line does not   *)
(* parse, and the last line if it lacks its newline.                       *)
(***************************************************************************)
Text  == [lines : SUBSET Entry, broken : BOOLEAN, tail : Entry \cup {NoEntry, Torn}]
Blank == [lines |-> {}, broken |-> FALSE, tail |-> NoEntry]

\* Whatever is written after a line without a newline makes one line with it.
Merged(text, tail) ==
    [lines |-> text.lines \ {text.tail}, broken |-> TRUE, tail |-> tail]

Appended(text, e) ==
    IF text.tail = NoEntry THEN [text EXCEPT !.lines = @ \cup {e}] ELSE Merged(text, NoEntry)

CutAppends(text, e) ==
    {text, Appended(text, e), Merged(text, Torn),
     IF text.tail = NoEntry THEN [text EXCEPT !.lines = @ \cup {e}, !.tail = e]
                            ELSE Merged(text, Torn)}

\* A rewrite puts all lines it read, and a newline after the last.
Rewritten(text, lines) == [text EXCEPT !.lines = lines, !.tail = NoEntry]

(***************************************************************************)
(* Belief and command                                                      *)
(***************************************************************************)
Belief  == [ticket : Ticket \cup {NoTicket}, volume : Volume, command : 0..MaxCommands]
Unknown == [ticket |-> NoTicket, volume |-> 0, command |-> 0]

\* The control file with what the EA made of it.
Order   == [id : 0..MaxCommands, event : IntentEvent \cup {"NONE"},
            ticket : Ticket \cup {NoTicket}, volume : Volume,
            ack : {"WAITING", "SUCCESS", "REFUSED"}]
NoOrder == [id |-> 0, event |-> "NONE", ticket |-> NoTicket, volume |-> 0,
            ack |-> "WAITING"]

Status   == [exported : BOOLEAN, ticket : Ticket \cup {NoTicket}, volume : Volume]
NoStatus == [exported |-> FALSE, ticket |-> NoTicket, volume |-> 0]

VARIABLES
    \* the journals, the history files, and which entries are settled
    text, archive, settled,
    \* what each entry says, and the next entry
    said, next,
    \* Python: saved and working belief, point in the cycle, intent at work
    disk, mem, pc, pending,
    \* control file, next command id; terminal and its status file
    control, nextCommand, positions, nextTicket, status,
    \* history: appends that returned, appends that were cut, kills, how
    \* often a ticket came to be believed, the tickets a saved state has held
    logged, cut, kills, beliefs, held

journals == <<text, archive, settled, said, next, logged, cut>>
python   == <<disk, mem, pc, pending>>
world    == <<control, nextCommand, positions, nextTicket, status>>
history  == <<kills, beliefs, held>>
vars     == <<journals, python, world, history>>

Running == {"idle", "loaded", "reconciled", "decided", "published", "waiting",
            "settle", "save", "failed", "recoverSync", "recoverSave"}
Pc      == Running \cup {"down"}

Init ==
    /\ text = [j \in Journal |-> Blank] /\ archive = {} /\ settled = {}
    /\ said = [e \in Entry |-> NoLine] /\ next = 1
    /\ disk = Unknown /\ mem = Unknown /\ pc = "down" /\ pending = NoEntry
    /\ control = NoOrder /\ nextCommand = 1
    /\ positions = [t \in Ticket |-> 0] /\ nextTicket = 1 /\ status = NoStatus
    /\ logged = {} /\ cut = {} /\ kills = 0
    /\ beliefs = [t \in Ticket |-> 0] /\ held = {}

(***************************************************************************)
(* Appending a line                                                        *)
(***************************************************************************)
FaultsLeft == kills + Cardinality(cut) < MaxFaults

\* Line `next` is written: its journal becomes one of the given texts.
Writes(line, texts) ==
    /\ next <= MaxEntries
    /\ \E newText \in texts : text' = [text EXCEPT ![JournalOf(line)] = newText]
    /\ said' = [said EXCEPT ![next] = line]
    /\ next' = next + 1
    /\ UNCHANGED <<archive, settled>>

\* The append returns.
Appends(line) ==
    /\ Writes(line, {Appended(text[JournalOf(line)], next)})
    /\ logged' = logged \cup {next}
    /\ UNCHANGED cut

\* The append is cut: it raises with the belief as given, or takes the process
\* with it.  An error in recovery ends startup and with it the process.
CutShort(line, belief) ==
    /\ FaultsLeft
    /\ Writes(line, CutAppends(text[JournalOf(line)], next))
    /\ cut' = cut \cup {next}
    /\ pending' = NoEntry
    /\ \/ /\ pc # "recoverSync" /\ pc' = "failed"
          /\ mem' = belief
       \/ pc' = "down" /\ mem' = Unknown
    /\ UNCHANGED <<logged, beliefs>>

Goto(target) == pc' = target

Believes(belief) ==
    /\ mem' = belief
    /\ beliefs' = IF belief.ticket \notin {NoTicket, mem.ticket}
                    THEN [beliefs EXCEPT ![belief.ticket] = @ + 1] ELSE beliefs

(***************************************************************************)
(* The terminal and its EA                                                 *)
(***************************************************************************)
OpenVolume(t) == IF t \in Ticket THEN positions[t] ELSE 0

OpenTickets == {t \in Ticket : positions[t] > 0}
Newest == IF OpenTickets = {} THEN NoTicket
          ELSE CHOOSE t \in OpenTickets : \A u \in OpenTickets : u <= t

EaOpens ==
    /\ control.event = "OPEN" /\ control.ack = "WAITING"
    /\ nextTicket <= MaxTickets
    /\ positions' = [positions EXCEPT ![nextTicket] = control.volume]
    /\ nextTicket' = nextTicket + 1
    /\ control' = [control EXCEPT !.ack = "SUCCESS", !.ticket = nextTicket]
    /\ UNCHANGED <<journals, python, nextCommand, status, history>>

\* Faulty: the volume is not compared with what is open.
EaClosesUnchecked ==
    /\ control.event \in {"CLOSE", "REDUCE"} /\ control.ack = "WAITING"
    /\ positions' = [positions EXCEPT ![control.ticket] = @ - control.volume]
    /\ control' = [control EXCEPT !.ack = "SUCCESS"]
    /\ UNCHANGED <<journals, python, nextCommand, nextTicket, status, history>>

EaCloses ==
    /\ control.event \in {"CLOSE", "REDUCE"} /\ control.ack = "WAITING"
    /\ control.volume <= OpenVolume(control.ticket)
    /\ positions' = [positions EXCEPT ![control.ticket] = @ - control.volume]
    /\ control' = [control EXCEPT !.ack = "SUCCESS"]
    /\ UNCHANGED <<journals, python, nextCommand, nextTicket, status, history>>

EaModifies ==
    /\ control.event = "MODIFY" /\ control.ack = "WAITING"
    /\ OpenVolume(control.ticket) > 0
    /\ control' = [control EXCEPT !.ack = "SUCCESS"]
    /\ UNCHANGED <<journals, python, nextCommand, positions, nextTicket, status, history>>

EaRefuses ==
    /\ control.event \in IntentEvent /\ control.ack = "WAITING"
    /\ control' = [control EXCEPT !.ack = "REFUSED"]
    /\ UNCHANGED <<journals, python, nextCommand, positions, nextTicket, status, history>>

\* SL, TP or the user closes a position or a part of it.
ExternalClose ==
    /\ \E t \in OpenTickets : \E v \in 0..(positions[t] - 1) :
          positions' = [positions EXCEPT ![t] = v]
    /\ UNCHANGED <<journals, python, control, nextCommand, nextTicket, status, history>>

Export ==
    /\ status' = [exported |-> TRUE, ticket |-> Newest, volume |-> OpenVolume(Newest)]
    /\ UNCHANGED <<journals, python, control, nextCommand, positions, nextTicket, history>>

(***************************************************************************)
(* What the acks and the status file make of a belief                      *)
(***************************************************************************)
Confirmed(belief, order) ==
    LET known == [belief EXCEPT !.command = order.id]
    IN  IF order.ack # "SUCCESS" THEN known
        ELSE IF order.event = "OPEN"
               THEN [known EXCEPT !.ticket = order.ticket, !.volume = order.volume]
        ELSE IF order.event \in {"CLOSE", "REDUCE"}
               THEN IF order.volume < belief.volume
                      THEN [known EXCEPT !.volume = @ - order.volume]
                      ELSE [known EXCEPT !.ticket = NoTicket, !.volume = 0]
        ELSE known

Timeout(belief, order) == [belief EXCEPT !.command = order.id]
Cleared(belief)        == [belief EXCEPT !.ticket = NoTicket, !.volume = 0]

Lost     == mem.ticket # NoTicket /\ mem.ticket # status.ticket
Reduced  == mem.ticket # NoTicket /\ mem.ticket = status.ticket /\ status.volume < mem.volume

\* reconcile_position_with_status is called in a cycle and in recovery.
Reconciling == pc \in {"loaded", "recoverSync"}
AfterSync   == IF pc = "loaded" THEN "reconciled" ELSE "recoverSave"

\* A faulty variant for the runs: the line is written, the belief is kept.
LogsAndKeepsBelief ==
    /\ Reconciling /\ status.exported /\ Lost
    /\ Appends([event |-> "EXTERNAL", ticket |-> mem.ticket])
    /\ Goto(AfterSync)
    /\ UNCHANGED <<mem, beliefs, pending, disk, world, kills, held>>

\* The position is gone: first the line, then the belief.
LogExternalClose ==
    /\ Reconciling /\ status.exported /\ Lost
    /\ \/ /\ Appends([event |-> "EXTERNAL", ticket |-> mem.ticket])
          /\ Believes(Cleared(mem))
          /\ Goto(AfterSync)
          /\ UNCHANGED pending
       \/ CutShort([event |-> "EXTERNAL", ticket |-> mem.ticket], mem)
    /\ UNCHANGED <<disk, world, kills, held>>

\* A part of it is gone: first the belief, then the line.
LogPartialClose ==
    /\ Reconciling /\ status.exported /\ Reduced
    /\ LET smaller == [mem EXCEPT !.volume = status.volume]
       IN  \/ /\ Appends([event |-> "PARTIAL", ticket |-> mem.ticket])
              /\ Believes(smaller)
              /\ Goto(AfterSync)
              /\ UNCHANGED pending
           \/ CutShort([event |-> "PARTIAL", ticket |-> mem.ticket], smaller)
    /\ UNCHANGED <<disk, world, kills, held>>

\* Nothing to log: a position is adopted, has grown, or is as believed.
SyncSilently ==
    /\ Reconciling
    /\ status.exported => ~Lost /\ ~Reduced
    /\ status.exported \/ pc = "recoverSync"
    /\ IF status.exported
         THEN Believes([mem EXCEPT !.ticket = status.ticket, !.volume = status.volume])
         ELSE UNCHANGED <<mem, beliefs>>
    /\ Goto(AfterSync)
    /\ UNCHANGED <<journals, disk, pending, world, kills, held>>

(***************************************************************************)
(* The cycle                                                               *)
(***************************************************************************)
BeginCycle ==
    /\ pc = "idle" /\ status.exported
    /\ mem' = disk
    /\ Goto("loaded")
    /\ UNCHANGED <<journals, disk, pending, world, history>>

\* The market, sensor or status file is missing, invalid or stale.
CycleLogsError ==
    /\ pc = "idle"
    /\ mem' = disk
    /\ Goto("failed")
    /\ UNCHANGED <<journals, disk, pending, world, history>>

LogDecision ==
    /\ pc = "reconciled"
    /\ \/ /\ Appends(DecisionLine)
          /\ Goto("decided")
          /\ UNCHANGED <<mem, pending, beliefs>>
       \/ CutShort(DecisionLine, mem)
    /\ UNCHANGED <<disk, world, kills, held>>

\* What the belief lets the cycle order, see Proposals in ExecutionChannel.
Orders(belief) ==
    LET Ordered(event, volume) ==
            [id |-> nextCommand, event |-> event, ticket |-> belief.ticket,
             volume |-> volume, ack |-> "WAITING"]
    IN  IF belief.ticket = NoTicket THEN {Ordered("OPEN", FullVolume)}
        ELSE {Ordered("MODIFY", 0), Ordered("CLOSE", belief.volume)}
             \cup {Ordered("REDUCE", v) : v \in 1..(belief.volume - 1)}

PublishNone ==
    /\ pc = "decided"
    /\ control' = NoOrder
    /\ Goto("save")
    /\ UNCHANGED <<journals, disk, mem, pending, nextCommand, positions, nextTicket,
                   status, history>>

Publish ==
    /\ pc = "decided" /\ nextCommand <= MaxCommands
    /\ \E order \in Orders(mem) : control' = order
    /\ nextCommand' = nextCommand + 1
    /\ Goto("published")
    /\ UNCHANGED <<journals, disk, mem, pending, positions, nextTicket, status, history>>

LogIntent ==
    /\ pc = "published"
    /\ LET intent == [event |-> control.event,
                      ticket |-> IF control.event = "OPEN" THEN NoTicket ELSE control.ticket]
       IN  \/ /\ Appends(intent)
              /\ pending' = next
              /\ Goto("waiting")
              /\ UNCHANGED <<mem, beliefs>>
           \/ CutShort(intent, mem)
    /\ UNCHANGED <<disk, world, kills, held>>

AckArrives ==
    /\ pc = "waiting" /\ control.ack # "WAITING"
    /\ Believes(Confirmed(mem, control))
    /\ Goto("settle")
    /\ UNCHANGED <<journals, disk, pending, world, kills, held>>

AckTimesOut ==
    /\ pc = "waiting"
    /\ \/ /\ Appends(ErrorLine)
          /\ mem' = Timeout(mem, control) /\ control' = NoOrder
          /\ Goto("settle")
          /\ UNCHANGED <<pending, beliefs>>
       \/ CutShort(ErrorLine, mem) /\ UNCHANGED control
    /\ UNCHANGED <<disk, nextCommand, positions, nextTicket, status, kills, held>>

\* log_trade_ack or log_trade_ack_timeout: every line is parsed, so one broken
\* line is enough to raise.  The control file is archived after it.
Settle ==
    /\ pc = "settle" /\ ~text["trade"].broken
    /\ text' = [text EXCEPT !["trade"] = Rewritten(@, @.lines)]
    /\ settled' = settled \cup {pending}
    /\ control' = NoOrder
    /\ pending' = NoEntry
    /\ Goto("save")
    /\ UNCHANGED <<archive, said, next, logged, cut, disk, mem, nextCommand, positions,
                   nextTicket, status, history>>

SettleRaises ==
    /\ pc = "settle" /\ text["trade"].broken
    /\ pending' = NoEntry
    /\ Goto("failed")
    /\ UNCHANGED <<journals, disk, mem, world, history>>

SaveState ==
    /\ pc \in {"save", "recoverSave"}
    /\ disk' = mem
    /\ held' = IF mem.ticket = NoTicket THEN held ELSE held \cup {mem.ticket}
    /\ Goto("idle")
    /\ UNCHANGED <<journals, mem, pending, world, kills, beliefs>>

\* The handler of the isolated cycle, and the early returns of a cycle.
LogError ==
    /\ pc = "failed"
    /\ \/ /\ Appends(ErrorLine)
          /\ Goto("idle")
          /\ UNCHANGED <<mem, pending, beliefs>>
       \/ /\ CutShort(ErrorLine, mem)
    /\ UNCHANGED <<disk, world, kills, held>>

\* Faulty: the history file of the day is overwritten.
RotateOverwrites ==
    /\ pc = "idle"
    /\ \E j \in Journal, cutoff \in Entry :
          LET expired == {e \in text[j].lines : e < cutoff}
          IN  /\ expired # {}
              /\ text' = [text EXCEPT ![j] = Rewritten(@, @.lines \ expired)]
              /\ archive' = expired
    /\ UNCHANGED <<settled, said, next, logged, cut, python, world, history>>

\* rotate_journal_file: lines before the cutoff move to the history file.
Rotate ==
    /\ pc = "idle"
    /\ \E j \in Journal, cutoff \in Entry :
          LET expired == {e \in text[j].lines : e < cutoff}
          IN  /\ expired # {}
              /\ text' = [text EXCEPT ![j] = Rewritten(@, @.lines \ expired)]
              /\ archive' = archive \cup expired
    /\ UNCHANGED <<settled, said, next, logged, cut, python, world, history>>

(***************************************************************************)
(* Start and stop                                                          *)
(***************************************************************************)
\* recover_pending_ack: a command that the saved state does not know of is
\* confirmed or timed out, and withdrawn; the journal is not touched.
Recover ==
    /\ pc = "down"
    /\ IF control.event # "NONE" /\ control.id # disk.command
         THEN /\ mem' = IF control.ack = "WAITING" THEN Timeout(disk, control)
                                                   ELSE Confirmed(disk, control)
              /\ control' = NoOrder
         ELSE mem' = disk /\ UNCHANGED control
    /\ beliefs' = IF mem'.ticket \notin {NoTicket, disk.ticket}
                    THEN [beliefs EXCEPT ![mem'.ticket] = @ + 1] ELSE beliefs
    /\ Goto("recoverSync")
    /\ UNCHANGED <<journals, disk, pending, nextCommand, positions, nextTicket, status,
                   kills, held>>

\* shutdown between two cycles saves what is in memory.
Shutdown ==
    /\ pc = "idle"
    /\ disk' = mem /\ mem' = Unknown
    /\ held' = IF mem.ticket = NoTicket THEN held ELSE held \cup {mem.ticket}
    /\ Goto("down")
    /\ UNCHANGED <<journals, pending, world, kills, beliefs>>

Kill ==
    /\ pc # "down" /\ FaultsLeft
    /\ kills' = kills + 1
    /\ mem' = Unknown /\ pending' = NoEntry
    /\ Goto("down")
    /\ UNCHANGED <<journals, disk, world, beliefs, held>>

Terminal == EaOpens \/ EaCloses \/ EaModifies \/ EaRefuses \/ ExternalClose \/ Export
Sync     == LogExternalClose \/ LogPartialClose \/ SyncSilently
Cycle    == \/ BeginCycle \/ CycleLogsError \/ LogDecision \/ PublishNone \/ Publish
            \/ LogIntent \/ AckArrives \/ AckTimesOut \/ Settle \/ SettleRaises
            \/ SaveState \/ LogError

Next == Terminal \/ Sync \/ Cycle \/ Rotate \/ Recover \/ Shutdown \/ Kill

Spec == Init /\ [][Next]_vars

-----------------------------------------------------------------------------
\* The journals, the belief and the command keep their types.
TypeOK ==
    /\ text \in [Journal -> Text] /\ archive \subseteq Entry /\ settled \subseteq Entry
    /\ said \in [Entry -> Line] /\ next \in 1..(MaxEntries + 1)
    /\ disk \in Belief /\ mem \in Belief /\ pc \in Pc
    /\ pending \in Entry \cup {NoEntry}
    /\ control \in Order /\ nextCommand \in 1..(MaxCommands + 1)
    /\ positions \in [Ticket -> Volume] /\ nextTicket \in 1..(MaxTickets + 1)
    /\ status \in Status
    /\ logged \subseteq Entry /\ cut \subseteq Entry /\ kills \in 0..MaxFaults
    /\ beliefs \in [Ticket -> Nat] /\ held \subseteq Ticket

Present(e) == e \in text[JournalOf(said[e])].lines \cup archive

\* e and f are consecutive lines of one journal.
Follows(e, f) ==
    /\ e < f /\ JournalOf(said[e]) = JournalOf(said[f])
    /\ \A g \in (e + 1)..(f - 1) : JournalOf(said[g]) # JournalOf(said[f])

\* A cut append costs at most the line after it: every line whose append
\* returned can be read, now or in a history file, unless the append before it
\* in the same journal was cut.  A line with a verdict is never lost.
LossBounded ==
    /\ \A e \in logged : Present(e) \/ \E c \in cut : Follows(c, e)
    /\ \A e \in settled : Present(e)

Lines(t, events) == {e \in Entry : Present(e) /\ said[e].ticket = t /\ said[e].event \in events}
Faults == kills + Cardinality(cut)
Untold == {t \in held : t # disk.ticket /\ Lines(t, {"CLOSE", "EXTERNAL"}) = {}}

\* The trade journal tells of the end of every position once: it has no more
\* external-close lines of a ticket than the ticket came to be believed, but
\* for one per kill or cut append; and a position that the saved state has held
\* and holds no more was told of, but for two per fault.
ClosesTold ==
    /\ ~text["trade"].broken =>
         \A t \in Ticket : Cardinality(Lines(t, {"EXTERNAL"})) <= beliefs[t] + Faults
    /\ Cardinality(Untold) <= 2 * Faults
=============================================================================
