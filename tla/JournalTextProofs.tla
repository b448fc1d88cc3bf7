-------------------------- MODULE JournalTextProofs --------------------------
(***************************************************************************)
(* What holds of JournalText for every number of lines, commands, tickets  *)
(* and faults.  There are two inductive invariants.  JournalInv is about   *)
(* the texts: the types, and that a last line without its newline is       *)
(* always the work of the last append to that journal, which was cut.      *)
(* TellInv, on top of it, is about what the trade journal tells: it counts *)
(* the lines and the tickets that are still owed, and the faults that pay  *)
(* for them.                                                               *)
(***************************************************************************)
EXTENDS JournalText, FiniteSetTheorems, WellFoundedInduction, TLAPS

-----------------------------------------------------------------------------
Known == 1..(next - 1)

\* c is the last entry of journal j.
LastOf(c, j) ==
    /\ c \in Known /\ JournalOf(said[c]) = j
    /\ \A g \in (c + 1)..(next - 1) : JournalOf(said[g]) # j

TailsCut ==
    \A j \in Journal :
        /\ text[j].tail # NoEntry => \E c \in cut : LastOf(c, j)
        /\ text[j].tail \in Entry => text[j].tail \in cut

EntriesKnown ==
    /\ logged \subseteq Known /\ cut \subseteq Known /\ logged \cap cut = {}
    /\ settled \subseteq logged /\ archive \subseteq Known
    /\ \A j \in Journal : text[j].lines \subseteq Known
    /\ \A j \in Journal : \A e \in text[j].lines : JournalOf(said[e]) = j

\* The intent at work can be found, or settling it will raise.
PendingFound ==
    /\ pc \in {"waiting", "settle"} => pending # NoEntry
    /\ pending # NoEntry =>
         /\ pending \in logged
         /\ text["trade"].broken \/ Present(pending)

TextInv    == EntriesKnown /\ TailsCut /\ LossBounded
JournalInv == TypeOK /\ TextInv /\ PendingFound

-----------------------------------------------------------------------------
(* Sets of numbers, and the operators on texts.                            *)

\* A non-empty set of numbers up to n has a greatest element.
LEMMA MaxExists ==
    ASSUME NEW N \in Nat, NEW S \in SUBSET (1..N), S # {}
    PROVE  \E t \in S : \A u \in S : u <= t
<1> DEFINE R == OpToRel(<, Nat)
           Mirror == {k \in Nat : \E t \in S : k = N - t}
<1>1. PICK k \in Mirror : \A l \in Mirror : ~(<<l, k>> \in R)
  <2>1. Mirror # {}
    <3>1. PICK t \in S : TRUE  OBVIOUS
    <3>2. N - t \in Mirror  BY <3>1
    <3> QED BY <3>2
  <2>2. IsWellFoundedOn(R, Nat)  BY NatLessThanWellFounded
  <2>3. Mirror \subseteq Nat  OBVIOUS
  <2> HIDE DEF R, Mirror
  <2> QED BY <2>1, <2>2, <2>3, WFMin
<1>2. \A l \in Mirror : ~(l < k)  BY <1>1 DEF OpToRel
<1>3. PICK t \in S : k = N - t  BY <1>1
<1>4. ASSUME NEW u \in S  PROVE u <= t
  <2>1. N - u \in Mirror  OBVIOUS
  <2>2. ~(N - u < N - t)  BY <2>1, <1>2, <1>3
  <2> QED BY <2>2
<1> QED BY <1>4

LEMMA JournalType ==
    ASSUME NEW line \in Line
    PROVE  JournalOf(line) \in Journal
BY DEF JournalOf, Journal

\* What an append makes of a text, whole or cut, with e the new entry.
LEMMA AppendFacts ==
    ASSUME NEW t \in Text, NEW e \in Entry, NEW u \in CutAppends(t, e)
    PROVE  /\ u \in Text
           /\ u.lines \subseteq t.lines \cup {e}
           /\ t.lines \ {t.tail} \subseteq u.lines
           /\ t.broken => u.broken
           /\ ~u.broken => t.lines \subseteq u.lines
           /\ u.tail \in Entry => u.tail \in {e, t.tail}
<1> USE JournalAssumption DEF Entry, NoEntry, Torn, Text
<1>1. CASE u = t  BY <1>1
<1>2. CASE u = Merged(t, Torn)  BY <1>2 DEF Merged
<1>3. CASE u = Merged(t, NoEntry)  BY <1>3 DEF Merged
<1>4. CASE u = [t EXCEPT !.lines = @ \cup {e}]  BY <1>4
<1>5. CASE u = [t EXCEPT !.lines = @ \cup {e}, !.tail = e]  BY <1>5
<1> QED BY <1>1, <1>2, <1>3, <1>4, <1>5 DEF CutAppends, Appended

LEMMA WholeAppend ==
    ASSUME NEW t \in Text, NEW e \in Entry
    PROVE  /\ Appended(t, e) \in CutAppends(t, e)
           /\ Appended(t, e).tail = NoEntry
           /\ t.tail = NoEntry => e \in Appended(t, e).lines
           /\ t.tail # NoEntry => Appended(t, e).broken
BY DEF Appended, CutAppends, Merged, Text

\* A rewrite keeps the lines it is given and ends the last of them.
LEMMA RewriteFacts ==
    ASSUME NEW t \in Text, NEW lines \in SUBSET Entry
    PROVE  /\ Rewritten(t, lines) \in Text
           /\ Rewritten(t, lines).lines = lines
           /\ Rewritten(t, lines).tail = NoEntry
           /\ Rewritten(t, lines).broken = t.broken
BY DEF Rewritten, Text

\* What the acks and the status make of a belief is a belief.
LEMMA BeliefTypes ==
    ASSUME NEW b \in Belief, NEW o \in Order
    PROVE  /\ Confirmed(b, o) \in Belief /\ Timeout(b, o) \in Belief
           /\ Cleared(b) \in Belief /\ Unknown \in Belief
<1>1. /\ o.id \in 0..MaxCommands /\ o.volume \in Volume
      /\ o.ticket \in Ticket \cup {NoTicket} /\ b.volume \in Volume
  BY DEF Order, Belief
<1>2. 0 \in Volume /\ 0 \in 0..MaxCommands
  BY JournalAssumption DEF Volume
<1>3. Timeout(b, o) \in Belief /\ Cleared(b) \in Belief /\ Unknown \in Belief
  BY <1>1, <1>2 DEF Timeout, Cleared, Unknown, Belief
<1>4. o.volume < b.volume => b.volume - o.volume \in Volume
  BY <1>1, JournalAssumption DEF Volume
<1>5. Confirmed(b, o) \in Belief
  BY <1>1, <1>2, <1>4 DEF Confirmed, Belief
<1> QED BY <1>3, <1>5

\* The position in the status file is one.
LEMMA NewestType ==
    ASSUME positions \in [Ticket -> Volume]
    PROVE  Newest \in Ticket \cup {NoTicket} /\ OpenVolume(Newest) \in Volume
<1>1. Newest \in Ticket \cup {NoTicket}
  <2>1. OpenTickets \in SUBSET (1..MaxTickets)  BY DEF OpenTickets, Ticket
  <2>2. CASE OpenTickets = {}  BY <2>2 DEF Newest
  <2>3. CASE OpenTickets # {}
    <3>1. \E t \in OpenTickets : \A u \in OpenTickets : u <= t
      BY <2>1, <2>3, MaxExists, JournalAssumption
    <3> QED BY <2>1, <2>3, <3>1 DEF Newest, Ticket
  <2> QED BY <2>2, <2>3
<1>2. OpenVolume(Newest) \in Volume
  BY JournalAssumption DEF OpenVolume, Volume
<1> QED BY <1>1, <1>2

-----------------------------------------------------------------------------
(* Appends and rewrites keep TextInv.                                      *)

\* An entry known before keeps its line, unless it was cut itself.
LEMMA PresentStays ==
    ASSUME TypeOK, TextInv, next \in Entry, NEW line \in Line,
           NEW u \in CutAppends(text[JournalOf(line)], next),
           text' = [text EXCEPT ![JournalOf(line)] = u],
           said' = [said EXCEPT ![next] = line], archive' = archive,
           NEW e \in Known, e \notin cut, Present(e)
    PROVE  Present(e)'
<1> DEFINE j == JournalOf(line)
<1>1. j \in Journal /\ text[j] \in Text  BY JournalType DEF TypeOK
<1>2. said'[e] = said[e] /\ e \in Entry
  BY JournalAssumption DEF TypeOK, Known, Entry
<1>3. CASE e \in archive  BY <1>3 DEF Present
<1>4. CASE e \notin archive
  <2>1. e \in text[JournalOf(said[e])].lines  BY <1>4 DEF Present
  <2>2. JournalOf(said[e]) \in Journal  BY <1>2, JournalType DEF TypeOK
  <2>3. CASE JournalOf(said[e]) # j
    BY <1>2, <2>1, <2>2, <2>3 DEF Present, TypeOK
  <2>4. CASE JournalOf(said[e]) = j
    <3>1. text[j].tail # e  BY <1>1, <1>2 DEF TextInv, TailsCut
    <3>2. e \in u.lines  BY <1>1, <2>1, <2>4, <3>1, AppendFacts
    <3> QED BY <1>1, <1>2, <2>4, <3>2 DEF Present, TypeOK
  <2> QED BY <2>3, <2>4
<1> QED BY <1>3, <1>4

\* The entry being written is the last one of its journal.
LEMMA NextIsLast ==
    ASSUME TypeOK, NEW n \in Entry, n = next, NEW line \in Line,
           said' = [said EXCEPT ![n] = line], next' = n + 1
    PROVE  /\ LastOf(n, JournalOf(line))'
           /\ \A c \in Known, k \in Journal :
                k # JournalOf(line) /\ LastOf(c, k) => LastOf(c, k)'
           /\ \A c \in Known : LastOf(c, JournalOf(line)) => Follows(c, n)'
<1>1. said'[n] = line /\ \A g \in Known : said'[g] = said[g]
  BY JournalAssumption DEF TypeOK, Known, Entry
<1>2. n \in Nat /\ n >= 1  BY JournalAssumption DEF Entry
<1>3. LastOf(n, JournalOf(line))'
  BY <1>1, <1>2 DEF LastOf, Known
<1>4. ASSUME NEW c \in Known, NEW k \in Journal, k # JournalOf(line), LastOf(c, k)
      PROVE  LastOf(c, k)'
  <2>1. c \in Known' /\ said'[c] = said[c]  BY <1>1, <1>2 DEF Known
  <2>2. ASSUME NEW g \in (c + 1)..(next' - 1)  PROVE JournalOf(said'[g]) # k
    <3>1. CASE g = n  BY <1>1, <1>4, <3>1
    <3>2. CASE g # n
      <4>1. g \in Known /\ g \in (c + 1)..(next - 1)  BY <1>2, <3>2 DEF Known
      <4> QED BY <1>1, <1>4, <4>1 DEF LastOf
    <3> QED BY <3>1, <3>2
  <2> QED BY <1>4, <2>1, <2>2 DEF LastOf
<1>5. ASSUME NEW c \in Known, LastOf(c, JournalOf(line))  PROVE Follows(c, n)'
  <2>1. said'[c] = said[c] /\ c < n  BY <1>1, <1>2 DEF Known
  <2>2. ASSUME NEW g \in (c + 1)..(n - 1)  PROVE JournalOf(said'[g]) # JournalOf(line)
    <3>1. g \in Known  BY <1>2 DEF Known
    <3> QED BY <1>1, <1>5, <3>1 DEF LastOf
  <2> QED BY <1>1, <1>5, <2>1, <2>2 DEF LastOf, Follows
<1> QED BY <1>3, <1>4, <1>5

\* An append keeps TextInv, whether it returns or is cut.
LEMMA WriteKeeps ==
    ASSUME TypeOK, TextInv, NEW n \in Entry, n = next, NEW line \in Line,
           NEW u \in CutAppends(text[JournalOf(line)], n),
           text' = [text EXCEPT ![JournalOf(line)] = u],
           said' = [said EXCEPT ![n] = line], next' = n + 1,
           archive' = archive, settled' = settled,
           \/ /\ u = Appended(text[JournalOf(line)], n)
              /\ logged' = logged \cup {n} /\ cut' = cut
           \/ logged' = logged /\ cut' = cut \cup {n}
    PROVE  TextInv'
<1> DEFINE j == JournalOf(line)
<1>1. /\ j \in Journal /\ text[j] \in Text /\ text'[j] = u
      /\ \A k \in Journal : k # j => text'[k] = text[k]
  BY JournalType DEF TypeOK
<1>2. /\ u \in Text /\ u.lines \subseteq text[j].lines \cup {n}
      /\ u.tail \in Entry => u.tail \in {n, text[j].tail}
  BY <1>1, AppendFacts
<1>3. /\ said'[n] = line /\ \A g \in Known : said'[g] = said[g]
      /\ Known' = Known \cup {n} /\ n \notin Known
  BY JournalAssumption DEF TypeOK, Known, Entry
<1>4. EntriesKnown'
  <2>1. logged' \subseteq Known' /\ cut' \subseteq Known' /\ logged' \cap cut' = {}
    BY <1>3 DEF TextInv, EntriesKnown
  <2>2. settled' \subseteq logged' /\ archive' \subseteq Known'
    BY <1>3 DEF TextInv, EntriesKnown
  <2>3. ASSUME NEW k \in Journal
        PROVE  /\ text'[k].lines \subseteq Known'
               /\ \A e \in text'[k].lines : JournalOf(said'[e]) = k
    BY <1>1, <1>2, <1>3 DEF TextInv, EntriesKnown
  <2> QED BY <2>1, <2>2, <2>3 DEF EntriesKnown
<1>5. TailsCut'
  <2>1. CASE u = Appended(text[j], n) /\ cut' = cut
    <3>1. u.tail = NoEntry /\ NoEntry \notin Entry
      BY <1>1, <2>1, WholeAppend DEF NoEntry, Entry
    <3>2. ASSUME NEW k \in Journal, k # j
          PROVE  /\ text'[k].tail # NoEntry => \E c \in cut' : LastOf(c, k)'
                 /\ text'[k].tail \in Entry => text'[k].tail \in cut'
      BY <1>1, <2>1, <3>2, NextIsLast DEF TextInv, TailsCut, EntriesKnown
    <3> QED BY <1>1, <3>1, <3>2 DEF TailsCut
  <2>2. CASE cut' = cut \cup {n}
    <3>1. LastOf(n, j)'  BY NextIsLast
    <3>2. u.tail \in Entry => u.tail \in cut'
      BY <1>1, <1>2, <2>2 DEF TextInv, TailsCut
    <3>3. ASSUME NEW k \in Journal, k # j
          PROVE  /\ text'[k].tail # NoEntry => \E c \in cut' : LastOf(c, k)'
                 /\ text'[k].tail \in Entry => text'[k].tail \in cut'
      BY <1>1, <2>2, <3>3, NextIsLast DEF TextInv, TailsCut, EntriesKnown
    <3> QED BY <1>1, <2>2, <3>1, <3>2, <3>3 DEF TailsCut
  <2> QED BY <2>1, <2>2
<1>6. ASSUME NEW e \in Known, e \notin cut, Present(e)  PROVE Present(e)'
  BY <1>6, PresentStays
<1>7. LossBounded'
  <2>1. ASSUME NEW e \in settled'  PROVE Present(e)'
    BY <1>6 DEF TextInv, EntriesKnown, LossBounded
  <2>2. ASSUME NEW e \in logged, ~Present(e)
        PROVE  \E c \in cut' : Follows(c, e)'
    <3>1. PICK c \in cut : Follows(c, e)  BY <2>2 DEF TextInv, LossBounded
    <3>2. c \in Known /\ e \in Known  BY DEF TextInv, EntriesKnown
    <3>3. \A g \in (c + 1)..(e - 1) : g \in Known
      BY <3>2, JournalAssumption DEF Known, Entry
    <3>4. Follows(c, e)'  BY <1>3, <3>1, <3>2, <3>3 DEF Follows
    <3> QED BY <3>4
  <2>3. ASSUME NEW e \in logged, Present(e)  PROVE Present(e)'
    BY <1>6, <2>3 DEF TextInv, EntriesKnown
  <2>4. ASSUME n \in logged'  PROVE Present(n)' \/ \E c \in cut' : Follows(c, n)'
    <3>1. u = Appended(text[j], n) /\ cut' = cut
      BY <1>3, <2>4 DEF TextInv, EntriesKnown
    <3>2. CASE text[j].tail = NoEntry
      BY <1>1, <1>3, <3>1, <3>2, WholeAppend DEF Present
    <3>3. CASE text[j].tail # NoEntry
      BY <1>1, <3>1, <3>3, NextIsLast DEF TextInv, TailsCut, EntriesKnown
    <3> QED BY <3>2, <3>3
  <2>5. ASSUME NEW e \in logged'  PROVE Present(e)' \/ \E c \in cut' : Follows(c, e)'
    BY <2>2, <2>3, <2>4, <2>5
  <2> QED BY <2>1, <2>5 DEF LossBounded
<1> QED BY <1>4, <1>5, <1>7 DEF TextInv

\* A rewrite that archives what it leaves out keeps TextInv, and so does giving
\* a verdict to a line that is there.
LEMMA RewriteKeeps ==
    ASSUME TypeOK, TextInv, NEW j \in Journal, NEW gone \in SUBSET text[j].lines,
           text' = [text EXCEPT ![j] = Rewritten(text[j], text[j].lines \ gone)],
           archive' = archive \cup gone,
           said' = said, next' = next, logged' = logged, cut' = cut,
           NEW now \in SUBSET logged, \A e \in now : Present(e),
           settled' = settled \cup now
    PROVE  TextInv' /\ \A e \in Known : Present(e) => Present(e)'
<1>1. /\ text[j] \in Text /\ text[j].lines \subseteq Entry
      /\ text'[j] = Rewritten(text[j], text[j].lines \ gone)
      /\ \A k \in Journal : k # j => text'[k] = text[k]
  BY DEF TypeOK, Text
<1>2. text'[j].lines = text[j].lines \ gone /\ text'[j].tail = NoEntry
  BY <1>1, RewriteFacts
<1>3. Known' = Known /\ NoEntry \notin Entry  BY DEF Known, NoEntry, Entry
<1>4. ASSUME NEW e \in Known, Present(e)  PROVE Present(e)'
  <2>1. said[e] \in Line /\ JournalOf(said[e]) \in Journal
    BY JournalAssumption, JournalType DEF TypeOK, Known, Entry
  <2> QED BY <1>1, <1>2, <1>4, <2>1 DEF Present
<1>5. EntriesKnown'
  <2>1. \A k \in Journal : text'[k].lines \subseteq text[k].lines  BY <1>1, <1>2
  <2> QED BY <1>3, <2>1 DEF TextInv, EntriesKnown
<1>6. TailsCut'
  <2>1. ASSUME NEW k \in Journal, NEW c \in cut, LastOf(c, k)  PROVE LastOf(c, k)'
    BY <1>3, <2>1 DEF LastOf
  <2>2. ASSUME NEW k \in Journal, k # j
        PROVE  /\ text'[k].tail # NoEntry => \E c \in cut' : LastOf(c, k)'
               /\ text'[k].tail \in Entry => text'[k].tail \in cut'
    BY <1>1, <2>1, <2>2 DEF TextInv, TailsCut
  <2> QED BY <1>2, <1>3, <2>2 DEF TailsCut
<1>7. LossBounded'
  <2>1. ASSUME NEW e \in logged  PROVE Present(e)' \/ \E c \in cut' : Follows(c, e)'
    <3>1. CASE Present(e)  BY <1>4, <3>1 DEF TextInv, EntriesKnown
    <3>2. CASE ~Present(e)  BY <3>2 DEF TextInv, LossBounded, Follows
    <3> QED BY <3>1, <3>2
  <2>2. ASSUME NEW e \in settled'  PROVE Present(e)'
    <3>1. e \in Known /\ Present(e)  BY DEF TextInv, EntriesKnown, LossBounded
    <3> QED BY <1>4, <3>1
  <2> QED BY <2>1, <2>2 DEF LossBounded
<1> QED BY <1>4, <1>5, <1>6, <1>7 DEF TextInv

-----------------------------------------------------------------------------
(* The two outcomes of an append, as the actions use them.                 *)

JournalsTyped ==
    /\ text \in [Journal -> Text] /\ archive \subseteq Entry /\ settled \subseteq Entry
    /\ said \in [Entry -> Line] /\ next \in 1..(MaxEntries + 1)
    /\ logged \subseteq Entry /\ cut \subseteq Entry

LEMMA WritesKeep ==
    ASSUME TypeOK, TextInv, PendingFound, NEW line \in Line, next \in Entry,
           NEW u \in CutAppends(text[JournalOf(line)], next),
           text' = [text EXCEPT ![JournalOf(line)] = u],
           said' = [said EXCEPT ![next] = line], next' = next + 1,
           archive' = archive, settled' = settled,
           \/ /\ u = Appended(text[JournalOf(line)], next)
              /\ logged' = logged \cup {next} /\ cut' = cut
           \/ logged' = logged /\ cut' = cut \cup {next}
    PROVE  /\ JournalsTyped' /\ TextInv'
           /\ pending # NoEntry =>
                text'["trade"].broken \/ (pending' = pending => Present(pending)')
<1> DEFINE j == JournalOf(line)
<1>1. j \in Journal /\ text[j] \in Text /\ u \in Text /\ (text[j].broken => u.broken)
  BY JournalType, AppendFacts DEF TypeOK
<1>2. PICK n \in Entry : n = next  OBVIOUS
<1>3. JournalsTyped'
  <2>1. text' \in [Journal -> Text]  BY <1>1 DEF TypeOK
  <2>2. said' \in [Entry -> Line]  BY DEF TypeOK
  <2>3. next' \in 1..(MaxEntries + 1)  BY JournalAssumption DEF Entry
  <2>4. /\ archive' \subseteq Entry /\ settled' \subseteq Entry
        /\ logged' \subseteq Entry /\ cut' \subseteq Entry
    BY DEF TypeOK
  <2> QED BY <2>1, <2>2, <2>3, <2>4 DEF JournalsTyped
<1>4. TextInv'  BY <1>2, WriteKeeps
<1>5. ASSUME pending # NoEntry
      PROVE  text'["trade"].broken \/ (pending' = pending => Present(pending)')
  <2>1. CASE text["trade"].broken  BY <1>1, <2>1 DEF TypeOK, Journal
  <2>2. CASE ~text["trade"].broken
    <3>1. PICK e \in Known : e = pending /\ e \notin cut /\ Present(e)
      BY <1>5, <2>2 DEF PendingFound, TextInv, EntriesKnown
    <3>2. Present(e)'  BY <3>1, PresentStays
    <3> QED BY <3>1, <3>2
  <2> QED BY <2>1, <2>2
<1> QED BY <1>3, <1>4, <1>5

LEMMA AppendsKeeps ==
    ASSUME TypeOK, TextInv, PendingFound, NEW line \in Line, Appends(line)
    PROVE  /\ JournalsTyped' /\ TextInv' /\ next \in Entry
           /\ logged' = logged \cup {next}
           /\ pending # NoEntry =>
                text'["trade"].broken \/ (pending' = pending => Present(pending)')
<1>1. next \in Entry  BY JournalAssumption DEF Appends, Writes, TypeOK, Entry
<1>2. PICK u : u = Appended(text[JournalOf(line)], next)  OBVIOUS
<1>3. /\ u \in CutAppends(text[JournalOf(line)], next)
      /\ text' = [text EXCEPT ![JournalOf(line)] = u]
  BY <1>1, <1>2, JournalType, WholeAppend DEF Appends, Writes, TypeOK
<1>4. /\ said' = [said EXCEPT ![next] = line] /\ next' = next + 1
      /\ archive' = archive /\ settled' = settled
      /\ logged' = logged \cup {next} /\ cut' = cut
  BY DEF Appends, Writes
<1> QED BY <1>1, <1>2, <1>3, <1>4, WritesKeep

LEMMA CutShortKeeps ==
    ASSUME TypeOK, TextInv, PendingFound, NEW line \in Line, NEW b \in Belief,
           CutShort(line, b)
    PROVE  /\ JournalsTyped' /\ TextInv' /\ pending' = NoEntry
           /\ mem' \in Belief /\ pc' \in {"failed", "down"} /\ beliefs' = beliefs
<1>1. next \in Entry  BY JournalAssumption DEF CutShort, Writes, TypeOK, Entry
<1>2. PICK u \in CutAppends(text[JournalOf(line)], next) :
           text' = [text EXCEPT ![JournalOf(line)] = u]
  BY DEF CutShort, Writes
<1>3. /\ said' = [said EXCEPT ![next] = line] /\ next' = next + 1
      /\ archive' = archive /\ settled' = settled
      /\ logged' = logged /\ cut' = cut \cup {next}
      /\ pending' = NoEntry /\ pc' \in {"failed", "down"} /\ beliefs' = beliefs
      /\ mem' = b \/ mem' = Unknown
  BY DEF CutShort, Writes
<1>4. Unknown \in Belief
  BY JournalAssumption DEF Unknown, Belief, Volume
<1>5. JournalsTyped' /\ TextInv'  BY <1>1, <1>2, <1>3, WritesKeep
<1> QED BY <1>3, <1>4, <1>5

-----------------------------------------------------------------------------
(* The inductive invariant.                                                *)

LEMMA InitInv == Init => JournalInv
<1> SUFFICES ASSUME Init PROVE JournalInv  OBVIOUS
<1> USE JournalAssumption DEF Init
<1>1. TypeOK
  <2>1. Blank \in Text  BY DEF Blank, Text
  <2>2. NoLine \in Line  BY DEF NoLine, Line
  <2>3. Unknown \in Belief  BY DEF Unknown, Belief, Volume
  <2>4. NoOrder \in Order  BY DEF NoOrder, Order, Volume
  <2>5. NoStatus \in Status  BY DEF NoStatus, Status, Volume
  <2> QED BY <2>1, <2>2, <2>3, <2>4, <2>5 DEF TypeOK, Pc, NoEntry, Volume
<1>2. TextInv
  BY DEF TextInv, EntriesKnown, TailsCut, LossBounded, Blank, Known, NoEntry, Entry
<1>3. PendingFound  BY DEF PendingFound
<1> QED BY <1>1, <1>2, <1>3 DEF JournalInv

\* The lines that the program writes are lines.
LEMMA LineTypes ==
    ASSUME TypeOK
    PROVE  /\ [event |-> "EXTERNAL", ticket |-> mem.ticket] \in Line
           /\ [event |-> "PARTIAL", ticket |-> mem.ticket] \in Line
           /\ DecisionLine \in Line
           /\ ErrorLine \in Line
           /\ [event |-> control.event,
               ticket |-> IF control.event = "OPEN" THEN NoTicket ELSE control.ticket] \in Line
<1>1. mem.ticket \in Ticket \cup {NoTicket} /\ control.ticket \in Ticket \cup {NoTicket}
      /\ control.event \in IntentEvent \cup {"NONE"}
  BY DEF TypeOK, Belief, Order
<1> QED BY <1>1 DEF Line, Event, IntentEvent, DecisionLine, ErrorLine

\* The intent line is one of the trade journal.
LEMMA IntentJournal ==
    ASSUME TypeOK, NEW t
    PROVE  JournalOf([event |-> control.event, ticket |-> t]) = "trade"
<1>1. control.event \in IntentEvent \cup {"NONE"}  BY DEF TypeOK, Order
<1> QED BY <1>1 DEF JournalOf, IntentEvent

PythonTyped ==
    /\ disk \in Belief /\ mem \in Belief /\ pc \in Pc /\ pending \in Entry \cup {NoEntry}
WorldTyped ==
    /\ control \in Order /\ nextCommand \in 1..(MaxCommands + 1)
    /\ positions \in [Ticket -> Volume] /\ nextTicket \in 1..(MaxTickets + 1)
    /\ status \in Status
HistoryTyped ==
    /\ kills \in 0..MaxFaults /\ beliefs \in [Ticket -> Nat] /\ held \subseteq Ticket

LEMMA TypeParts ==
    /\ TypeOK <=> JournalsTyped /\ PythonTyped /\ WorldTyped /\ HistoryTyped
    /\ TypeOK' <=> JournalsTyped' /\ PythonTyped' /\ WorldTyped' /\ HistoryTyped'
BY DEF TypeOK, JournalsTyped, PythonTyped, WorldTyped, HistoryTyped

\* Believing keeps the types.
LEMMA BelievesTypes ==
    ASSUME TypeOK, NEW b \in Belief, Believes(b)
    PROVE  mem' \in Belief /\ beliefs' \in [Ticket -> Nat]
<1>1. b.ticket \in Ticket \cup {NoTicket}  BY DEF Belief
<1> QED BY <1>1 DEF Believes, TypeOK

\* What touches no journal and no pending intent keeps the rest.
LEMMA JournalsUntouched ==
    ASSUME JournalInv, UNCHANGED <<journals, pending>>,
           pc' \in {"waiting", "settle"} => pc \in {"waiting", "settle"}
    PROVE  JournalsTyped' /\ TextInv' /\ PendingFound'
<1> USE DEF journals
<1>1. JournalsTyped'  BY DEF JournalInv, TypeOK, JournalsTyped
<1>2. TextInv'
  BY DEF JournalInv, TextInv, EntriesKnown, TailsCut, LossBounded, Known, LastOf, Follows,
         Present
<1>3. PendingFound'  BY DEF JournalInv, PendingFound, Present
<1> QED BY <1>1, <1>2, <1>3

\* An append that leaves the pending intent alone keeps it found.
LEMMA AppendStep ==
    ASSUME JournalInv, NEW line \in Line, Appends(line), UNCHANGED pending,
           pc' \in {"waiting", "settle"} => pc \in {"waiting", "settle"}
    PROVE  JournalsTyped' /\ TextInv' /\ PendingFound'
<1>1. /\ JournalsTyped' /\ TextInv' /\ logged' = logged \cup {next}
      /\ pending # NoEntry => text'["trade"].broken \/ Present(pending)'
  BY AppendsKeeps DEF JournalInv
<1>2. PendingFound'  BY <1>1 DEF JournalInv, PendingFound
<1> QED BY <1>1, <1>2

LEMMA TerminalStep == JournalInv /\ Terminal => JournalInv'
<1> SUFFICES ASSUME JournalInv, Terminal PROVE JournalInv'  OBVIOUS
<1>1. TypeOK  BY DEF JournalInv
<1>2. /\ UNCHANGED <<journals, python, history>>
      /\ JournalsTyped' /\ TextInv' /\ PendingFound'
  <2>1. UNCHANGED <<journals, python, history>>
    BY DEF Terminal, EaOpens, EaCloses, EaModifies, EaRefuses, ExternalClose, Export, python
  <2> QED BY <2>1, JournalsUntouched DEF python
<1>3. PythonTyped' /\ HistoryTyped'
  BY <1>1, <1>2 DEF TypeOK, PythonTyped, HistoryTyped, python, history
<1>4. WorldTyped'
  <2> USE JournalAssumption DEF TypeOK, WorldTyped
  <2>1. control.volume \in Volume /\ control.ticket \in Ticket \cup {NoTicket}
    BY <1>1 DEF Order
  <2>2. CASE EaOpens
    <3>1. nextTicket \in Ticket  BY <1>1, <2>2 DEF EaOpens, Ticket
    <3>2. control' \in Order  BY <1>1, <2>2, <3>1 DEF EaOpens, Order
    <3>3. nextTicket' \in 1..(MaxTickets + 1)  BY <1>1, <2>2 DEF EaOpens
    <3> QED BY <1>1, <2>1, <2>2, <3>2, <3>3 DEF EaOpens
  <2>3. CASE EaCloses
    <3>1. control' \in Order  BY <1>1, <2>3 DEF EaCloses, Order
    <3>2. positions' \in [Ticket -> Volume]
      <4>1. ASSUME control.ticket \in Ticket
            PROVE  positions[control.ticket] - control.volume \in Volume
        BY <1>1, <2>1, <2>3, <4>1 DEF EaCloses, OpenVolume, Volume
      <4> QED BY <1>1, <2>1, <2>3, <4>1 DEF EaCloses
    <3> QED BY <1>1, <2>3, <3>1, <3>2 DEF EaCloses
  <2>4. CASE EaModifies  BY <1>1, <2>4 DEF EaModifies, Order
  <2>5. CASE EaRefuses  BY <1>1, <2>5 DEF EaRefuses, Order
  <2>6. CASE ExternalClose
    <3>1. PICK t \in OpenTickets :
               \E v \in 0..(positions[t] - 1) : positions' = [positions EXCEPT ![t] = v]
      BY <2>6 DEF ExternalClose
    <3>2. PICK v \in 0..(positions[t] - 1) : positions' = [positions EXCEPT ![t] = v]
      BY <3>1
    <3>3. t \in Ticket /\ positions[t] \in Volume  BY <1>1 DEF OpenTickets
    <3>4. v \in Volume  BY <3>3 DEF Volume
    <3> QED BY <1>1, <2>6, <3>2, <3>4 DEF ExternalClose
  <2>7. CASE Export
    <3>1. status' \in Status  BY <1>1, <2>7, NewestType DEF Export, Status
    <3> QED BY <1>1, <2>7, <3>1 DEF Export
  <2> QED BY <2>2, <2>3, <2>4, <2>5, <2>6, <2>7 DEF Terminal
<1> QED BY <1>2, <1>3, <1>4, TypeParts DEF JournalInv

LEMMA SyncStep == JournalInv /\ Sync => JournalInv'
<1> SUFFICES ASSUME JournalInv, Sync PROVE JournalInv'  OBVIOUS
<1>1. TypeOK /\ TextInv /\ PendingFound  BY DEF JournalInv
<1>2. WorldTyped' /\ disk' = disk /\ kills' = kills /\ held' = held
  BY <1>1 DEF Sync, LogExternalClose, LogPartialClose, SyncSilently, world, TypeOK, WorldTyped
<1>3. AfterSync \in Pc /\ AfterSync \notin {"waiting", "settle"}
  BY DEF AfterSync, Pc, Running
<1>4. status.volume \in Volume /\ status.ticket \in Ticket \cup {NoTicket}
  BY <1>1 DEF TypeOK, Status
<1>5. /\ mem \in Belief /\ Cleared(mem) \in Belief
      /\ [mem EXCEPT !.volume = status.volume] \in Belief
      /\ [mem EXCEPT !.ticket = status.ticket, !.volume = status.volume] \in Belief
  <2>1. mem \in Belief  BY <1>1 DEF TypeOK
  <2>2. Cleared(mem) \in Belief  BY <1>1, BeliefTypes DEF TypeOK
  <2> QED BY <1>4, <2>1, <2>2 DEF Belief
<1>6. ASSUME NEW line \in Line, NEW b \in Belief,
             Appends(line), Believes(b), Goto(AfterSync), UNCHANGED pending
      PROVE  JournalInv'
  <2>1. JournalsTyped' /\ TextInv' /\ PendingFound'
    BY <1>3, <1>6, AppendStep DEF Goto
  <2>2. mem' \in Belief /\ beliefs' \in [Ticket -> Nat]  BY <1>1, <1>6, BelievesTypes
  <2>3. PythonTyped' /\ HistoryTyped'
    BY <1>1, <1>2, <1>3, <1>6, <2>2 DEF Goto, TypeOK, PythonTyped, HistoryTyped
  <2> QED BY <1>2, <2>1, <2>3, TypeParts DEF JournalInv
<1>7. ASSUME NEW line \in Line, NEW b \in Belief, CutShort(line, b)
      PROVE  JournalInv'
  <2>1. /\ JournalsTyped' /\ TextInv' /\ pending' = NoEntry
        /\ mem' \in Belief /\ pc' \in {"failed", "down"} /\ beliefs' = beliefs
    BY <1>1, <1>7, CutShortKeeps
  <2>2. PythonTyped' /\ HistoryTyped' /\ PendingFound'
    BY <1>1, <1>2, <2>1 DEF TypeOK, PythonTyped, HistoryTyped, PendingFound, Pc, Running
  <2> QED BY <1>2, <2>1, <2>2, TypeParts DEF JournalInv
<1>8. CASE LogExternalClose
  BY <1>1, <1>5, <1>6, <1>7, <1>8, LineTypes DEF LogExternalClose
<1>9. CASE LogPartialClose
  BY <1>1, <1>5, <1>6, <1>7, <1>9, LineTypes DEF LogPartialClose
<1>10. CASE SyncSilently
  <2>1. JournalsTyped' /\ TextInv' /\ PendingFound'
    BY <1>3, <1>10, JournalsUntouched DEF SyncSilently, Goto
  <2>2. mem' \in Belief /\ beliefs' \in [Ticket -> Nat]
    BY <1>1, <1>5, <1>10, BelievesTypes DEF SyncSilently, TypeOK
  <2>3. PythonTyped' /\ HistoryTyped'
    BY <1>1, <1>2, <1>3, <1>10, <2>2
       DEF SyncSilently, Goto, TypeOK, PythonTyped, HistoryTyped
  <2> QED BY <1>2, <2>1, <2>3, TypeParts DEF JournalInv
<1> QED BY <1>8, <1>9, <1>10 DEF Sync

LEMMA CycleStep == JournalInv /\ Cycle => JournalInv'
<1> SUFFICES ASSUME JournalInv, Cycle PROVE JournalInv'  OBVIOUS
<1>1. TypeOK /\ TextInv /\ PendingFound  BY DEF JournalInv
<1>2. kills' = kills
  BY <1>1 DEF Cycle, BeginCycle, CycleLogsError, LogDecision, PublishNone, Publish, LogIntent,
       AckArrives, AckTimesOut, Settle, SettleRaises, SaveState, LogError, history
<1>3. ASSUME NEW line \in Line, CutShort(line, mem), UNCHANGED <<disk, control, nextCommand,
                 positions, nextTicket, status, held>>
      PROVE  JournalInv'
  <2>1. /\ JournalsTyped' /\ TextInv' /\ pending' = NoEntry
        /\ mem' \in Belief /\ pc' \in {"failed", "down"} /\ beliefs' = beliefs
    BY <1>1, <1>3, CutShortKeeps DEF TypeOK
  <2>2. PythonTyped' /\ WorldTyped' /\ HistoryTyped' /\ PendingFound'
    BY <1>1, <1>2, <1>3, <2>1
       DEF TypeOK, PythonTyped, WorldTyped, HistoryTyped, PendingFound, Pc, Running
  <2> QED BY <2>1, <2>2, TypeParts DEF JournalInv
<1>4. CASE BeginCycle \/ CycleLogsError
  <2>1. JournalsTyped' /\ TextInv' /\ PendingFound'
    BY <1>4, JournalsUntouched DEF BeginCycle, CycleLogsError, Goto
  <2>2. PythonTyped' /\ WorldTyped' /\ HistoryTyped'
    BY <1>1, <1>4 DEF BeginCycle, CycleLogsError, Goto, TypeOK, PythonTyped, WorldTyped,
                      HistoryTyped, world, history, Pc, Running
  <2> QED BY <2>1, <2>2, TypeParts DEF JournalInv
<1>5. CASE LogDecision
  <2>1. CASE CutShort(DecisionLine, mem)
    BY <1>1, <1>3, <1>5, <2>1, LineTypes DEF LogDecision, world
  <2>2. CASE /\ Appends(DecisionLine)
             /\ Goto("decided")
             /\ UNCHANGED <<mem, pending, beliefs>>
    <3>1. JournalsTyped' /\ TextInv' /\ PendingFound'
      BY <1>1, <2>2, LineTypes, AppendStep DEF Goto
    <3>2. PythonTyped' /\ WorldTyped' /\ HistoryTyped'
      BY <1>1, <1>5, <2>2 DEF LogDecision, Goto, TypeOK, PythonTyped, WorldTyped,
                              HistoryTyped, world, Pc, Running
    <3> QED BY <3>1, <3>2, TypeParts DEF JournalInv
  <2> QED BY <1>5, <2>1, <2>2 DEF LogDecision
<1>6. CASE PublishNone \/ Publish
  <2>1. JournalsTyped' /\ TextInv' /\ PendingFound'
    BY <1>6, JournalsUntouched DEF PublishNone, Publish, Goto
  <2>2. control' \in Order /\ nextCommand' \in 1..(MaxCommands + 1)
    <3>1. CASE PublishNone
      BY <1>1, <3>1, JournalAssumption DEF PublishNone, NoOrder, Order, TypeOK, Volume
    <3>2. CASE Publish
      <4>1. nextCommand \in 0..MaxCommands /\ nextCommand' \in 1..(MaxCommands + 1)
        BY <1>1, <3>2, JournalAssumption DEF Publish, TypeOK
      <4>2. /\ mem.ticket \in Ticket \cup {NoTicket} /\ mem.volume \in Volume
            /\ FullVolume \in Volume /\ 0 \in Volume
            /\ \A v \in 1..(mem.volume - 1) : v \in Volume
        BY <1>1, JournalAssumption DEF TypeOK, Belief, Volume
      <4>3. Orders(mem) \subseteq Order
        BY <4>1, <4>2 DEF Orders, Order, IntentEvent
      <4> QED BY <3>2, <4>1, <4>3 DEF Publish
    <3> QED BY <1>6, <3>1, <3>2
  <2>3. PythonTyped' /\ WorldTyped' /\ HistoryTyped'
    BY <1>1, <1>6, <2>2 DEF PublishNone, Publish, Goto, TypeOK, PythonTyped, WorldTyped,
                            HistoryTyped, history, Pc, Running
  <2> QED BY <2>1, <2>3, TypeParts DEF JournalInv
<1>7. CASE LogIntent
  <2> DEFINE intent == [event |-> control.event,
                        ticket |-> IF control.event = "OPEN" THEN NoTicket ELSE control.ticket]
  <2>1. intent \in Line /\ JournalOf(intent) = "trade"
    BY <1>1, LineTypes, IntentJournal
  <2>2. \/ CutShort(intent, mem)
        \/ Appends(intent) /\ pending' = next /\ Goto("waiting") /\ UNCHANGED <<mem, beliefs>>
    BY <1>7 DEF LogIntent
  <2> HIDE DEF intent
  <2>3. CASE CutShort(intent, mem)
    BY <1>3, <1>7, <2>1, <2>3 DEF LogIntent, world
  <2>4. CASE Appends(intent) /\ pending' = next /\ Goto("waiting") /\ UNCHANGED <<mem, beliefs>>
    <3>1. JournalsTyped' /\ TextInv' /\ next \in Entry /\ logged' = logged \cup {next}
      BY <1>1, <2>1, <2>4, AppendsKeeps
    <3>2. text'["trade"].broken \/ Present(pending)'
      <4>1. PICK t \in Text : t = text["trade"]  BY <1>1 DEF TypeOK, Journal
      <4>2. text'["trade"] = Appended(t, next)
        BY <1>1, <2>1, <2>4, <4>1 DEF Appends, Writes, TypeOK, Journal
      <4>3. JournalOf(said'[next]) = "trade"
        BY <1>1, <2>1, <2>4, <3>1 DEF Appends, Writes, TypeOK
      <4> QED BY <2>4, <3>1, <4>1, <4>2, <4>3, WholeAppend DEF Present
    <3>3. pending' # NoEntry /\ PendingFound'
      BY <2>4, <3>1, <3>2 DEF PendingFound, NoEntry, Entry
    <3>4. PythonTyped' /\ WorldTyped' /\ HistoryTyped'
      BY <1>1, <1>7, <2>4, <3>1 DEF LogIntent, Goto, TypeOK, PythonTyped, WorldTyped,
                              HistoryTyped, world, Pc, Running
    <3> QED BY <3>1, <3>3, <3>4, TypeParts DEF JournalInv
  <2> QED BY <2>2, <2>3, <2>4
<1>8. CASE AckArrives
  <2>1. JournalsTyped' /\ TextInv' /\ PendingFound'
    BY <1>8, JournalsUntouched DEF AckArrives, Goto
  <2>2. Confirmed(mem, control) \in Belief  BY <1>1, BeliefTypes DEF TypeOK
  <2>3. mem' \in Belief /\ beliefs' \in [Ticket -> Nat]
    BY <1>1, <1>8, <2>2, BelievesTypes DEF AckArrives
  <2>4. PythonTyped' /\ WorldTyped' /\ HistoryTyped'
    BY <1>1, <1>8, <2>3 DEF AckArrives, Goto, TypeOK, PythonTyped, WorldTyped, HistoryTyped,
                            world, Pc, Running
  <2> QED BY <2>1, <2>4, TypeParts DEF JournalInv
<1>9. CASE AckTimesOut
  <2>1. CASE CutShort(ErrorLine, mem) /\ UNCHANGED control
    BY <1>1, <1>3, <1>9, <2>1, LineTypes DEF AckTimesOut
  <2>2. CASE /\ Appends(ErrorLine)
             /\ mem' = Timeout(mem, control) /\ control' = NoOrder
             /\ Goto("settle")
             /\ UNCHANGED <<pending, beliefs>>
    <3>1. JournalsTyped' /\ TextInv' /\ PendingFound'
      BY <1>1, <1>9, <2>2, LineTypes, AppendStep DEF Goto, AckTimesOut
    <3>2. Timeout(mem, control) \in Belief /\ NoOrder \in Order
      BY <1>1, BeliefTypes, JournalAssumption DEF TypeOK, NoOrder, Order, Volume
    <3>3. PythonTyped' /\ WorldTyped' /\ HistoryTyped'
      BY <1>1, <1>9, <2>2, <3>2 DEF AckTimesOut, Goto, TypeOK, PythonTyped, WorldTyped,
                                    HistoryTyped, Pc, Running
    <3> QED BY <3>1, <3>3, TypeParts DEF JournalInv
  <2> QED BY <1>9, <2>1, <2>2 DEF AckTimesOut
<1>10. CASE Settle
  <2>1. /\ "trade" \in Journal /\ pc = "settle" /\ pending # NoEntry
        /\ pending \in logged /\ Present(pending)
    BY <1>1, <1>10 DEF Settle, PendingFound, Journal
  <2>2. text' = [text EXCEPT !["trade"] = Rewritten(text["trade"], text["trade"].lines)]
    BY <1>10 DEF Settle
  <2>3. TextInv'
    <3>1. PICK gone \in SUBSET text["trade"].lines : gone = {}  OBVIOUS
    <3>2. PICK now \in SUBSET logged : now = {pending}  BY <2>1
    <3>3. /\ text' = [text EXCEPT !["trade"] =
                                    Rewritten(text["trade"], text["trade"].lines \ gone)]
          /\ archive' = archive \cup gone /\ settled' = settled \cup now
          /\ said' = said /\ next' = next /\ logged' = logged /\ cut' = cut
      <4>1. text["trade"].lines \ gone = text["trade"].lines  BY <3>1
      <4> QED BY <1>10, <2>2, <3>1, <3>2, <4>1 DEF Settle
    <3>4. \A e \in now : Present(e)  BY <2>1, <3>2
    <3> QED BY <1>1, <2>1, <3>3, <3>4, RewriteKeeps
  <2>4. JournalsTyped'
    <3>1. text["trade"] \in Text /\ text["trade"].lines \in SUBSET Entry
      BY <1>1, <2>1 DEF TypeOK, Text
    <3>2. Rewritten(text["trade"], text["trade"].lines) \in Text  BY <3>1, RewriteFacts
    <3> QED BY <1>1, <1>10, <2>1, <2>2, <3>2 DEF Settle, TypeOK, JournalsTyped
  <2>5. PythonTyped' /\ WorldTyped' /\ HistoryTyped' /\ PendingFound'
    <3>1. NoOrder \in Order  BY JournalAssumption DEF NoOrder, Order, Volume
    <3> QED BY <1>1, <1>10, <3>1 DEF Settle, Goto, TypeOK, PythonTyped, WorldTyped,
               HistoryTyped, PendingFound, history, Pc, Running
  <2> QED BY <2>3, <2>4, <2>5, TypeParts DEF JournalInv
<1>11. CASE SettleRaises
  <2>1. JournalsTyped' /\ TextInv'
    BY <1>1, <1>11 DEF SettleRaises, journals, TypeOK, JournalsTyped, TextInv, EntriesKnown,
         TailsCut, LossBounded, Known, LastOf, Follows, Present
  <2>2. PythonTyped' /\ WorldTyped' /\ HistoryTyped' /\ PendingFound'
    BY <1>1, <1>11 DEF SettleRaises, Goto, TypeOK, PythonTyped, WorldTyped, HistoryTyped,
         PendingFound, world, history, Pc, Running
  <2> QED BY <2>1, <2>2, TypeParts DEF JournalInv
<1>12. CASE SaveState
  <2>1. JournalsTyped' /\ TextInv' /\ PendingFound'
    BY <1>12, JournalsUntouched DEF SaveState, Goto
  <2>2. mem.ticket \in Ticket \cup {NoTicket}  BY <1>1 DEF TypeOK, Belief
  <2>3. PythonTyped' /\ WorldTyped' /\ HistoryTyped'
    BY <1>1, <1>12, <2>2 DEF SaveState, Goto, TypeOK, PythonTyped, WorldTyped, HistoryTyped,
                             world, Pc, Running
  <2> QED BY <2>1, <2>3, TypeParts DEF JournalInv
<1>13. CASE LogError
  <2>1. CASE CutShort(ErrorLine, mem)
    BY <1>1, <1>3, <1>13, <2>1, LineTypes DEF LogError, world
  <2>2. CASE /\ Appends(ErrorLine)
             /\ Goto("idle")
             /\ UNCHANGED <<mem, pending, beliefs>>
    <3>1. JournalsTyped' /\ TextInv' /\ PendingFound'
      BY <1>1, <2>2, LineTypes, AppendStep DEF Goto
    <3>2. PythonTyped' /\ WorldTyped' /\ HistoryTyped'
      BY <1>1, <1>13, <2>2 DEF LogError, Goto, TypeOK, PythonTyped, WorldTyped,
                               HistoryTyped, world, Pc, Running
    <3> QED BY <3>1, <3>2, TypeParts DEF JournalInv
  <2> QED BY <1>13, <2>1, <2>2 DEF LogError
<1> QED BY <1>4, <1>5, <1>6, <1>7, <1>8, <1>9, <1>10, <1>11, <1>12, <1>13 DEF Cycle

LEMMA RotateStep == JournalInv /\ Rotate => JournalInv'
<1> SUFFICES ASSUME JournalInv, Rotate PROVE JournalInv'  OBVIOUS
<1>1. TypeOK /\ TextInv /\ PendingFound  BY DEF JournalInv
<1>2. PICK j \in Journal, cutoff \in Entry :
          LET expired == {e \in text[j].lines : e < cutoff}
          IN  /\ text' = [text EXCEPT ![j] = Rewritten(@, @.lines \ expired)]
              /\ archive' = archive \cup expired
  BY DEF Rotate
<1>3. PICK gone \in SUBSET text[j].lines :
          /\ text' = [text EXCEPT ![j] = Rewritten(text[j], text[j].lines \ gone)]
          /\ archive' = archive \cup gone
  BY <1>2
<1>4. /\ said' = said /\ next' = next /\ logged' = logged /\ cut' = cut
      /\ settled' = settled /\ UNCHANGED <<python, world, history>>
  BY DEF Rotate
<1>5. PICK now \in SUBSET logged : now = {}  OBVIOUS
<1>6. settled' = settled \cup now /\ \A e \in now : Present(e)  BY <1>4, <1>5
<1>7. TextInv' /\ \A e \in Known : Present(e) => Present(e)'
  BY <1>1, <1>3, <1>4, <1>6, RewriteKeeps
<1>8. text[j] \in Text /\ text[j].lines \in SUBSET Entry  BY <1>1 DEF TypeOK, Text
<1>9. Rewritten(text[j], text[j].lines \ gone) \in Text
      /\ Rewritten(text[j], text[j].lines \ gone).broken = text[j].broken
  BY <1>8, RewriteFacts
<1>10. JournalsTyped'
  BY <1>1, <1>3, <1>4, <1>8, <1>9 DEF TypeOK, JournalsTyped
<1>11. PendingFound'
  <2>1. pending' = pending /\ pc' = pc  BY <1>4 DEF python
  <2>2. text'["trade"].broken = text["trade"].broken
    BY <1>1, <1>3, <1>9 DEF TypeOK, Journal
  <2>3. pending # NoEntry => pending \in Known
    BY <1>1 DEF PendingFound, TextInv, EntriesKnown
  <2>4. pending # NoEntry /\ Present(pending) => Present(pending)'
    <3>1. SUFFICES ASSUME pending # NoEntry, Present(pending) PROVE Present(pending)'
      OBVIOUS
    <3>2. PICK e \in Known : e = pending  BY <2>3, <3>1
    <3>3. Present(e)'  BY <1>7, <3>1, <3>2
    <3> QED BY <2>1, <3>2, <3>3
  <2> QED BY <1>1, <1>4, <2>1, <2>2, <2>4 DEF PendingFound
<1> QED BY <1>1, <1>4, <1>7, <1>10, <1>11, TypeParts
        DEF JournalInv, TypeOK, PythonTyped, WorldTyped, HistoryTyped, python, world, history

LEMMA StopStep == JournalInv /\ (Recover \/ Shutdown \/ Kill) => JournalInv'
<1> SUFFICES ASSUME JournalInv, Recover \/ Shutdown \/ Kill PROVE JournalInv'  OBVIOUS
<1>1. TypeOK /\ TextInv /\ PendingFound  BY DEF JournalInv
<1>2. CASE Recover
  <2>1. JournalsTyped' /\ TextInv' /\ PendingFound'
    BY <1>2, JournalsUntouched DEF Recover, Goto
  <2>2. /\ disk \in Belief /\ Confirmed(disk, control) \in Belief
        /\ Timeout(disk, control) \in Belief
    BY <1>1, BeliefTypes DEF TypeOK
  <2>3. mem' \in Belief  BY <1>2, <2>2 DEF Recover
  <2>4. mem'.ticket \in Ticket \cup {NoTicket}  BY <2>3 DEF Belief
  <2>5. beliefs' \in [Ticket -> Nat]  BY <1>1, <1>2, <2>4 DEF Recover, TypeOK
  <2>6. NoOrder \in Order  BY JournalAssumption DEF NoOrder, Order, Volume
  <2>7. PythonTyped' /\ WorldTyped' /\ HistoryTyped'
    BY <1>1, <1>2, <2>3, <2>5, <2>6 DEF Recover, Goto, TypeOK, PythonTyped, WorldTyped,
                                        HistoryTyped, Pc, Running
  <2> QED BY <2>1, <2>7, TypeParts DEF JournalInv
<1>3. CASE Shutdown
  <2>1. JournalsTyped' /\ TextInv' /\ PendingFound'
    BY <1>3, JournalsUntouched DEF Shutdown, Goto
  <2>2. mem.ticket \in Ticket \cup {NoTicket}  BY <1>1 DEF TypeOK, Belief
  <2>3. Unknown \in Belief  BY JournalAssumption DEF Unknown, Belief, Volume
  <2>4. PythonTyped' /\ WorldTyped' /\ HistoryTyped'
    BY <1>1, <1>3, <2>2, <2>3 DEF Shutdown, Goto, TypeOK, PythonTyped, WorldTyped,
                                  HistoryTyped, world, Pc, Running
  <2> QED BY <2>1, <2>4, TypeParts DEF JournalInv
<1>4. CASE Kill
  <2>1. JournalsTyped' /\ TextInv'
    BY <1>1, <1>4 DEF Kill, journals, TypeOK, JournalsTyped, TextInv, EntriesKnown,
         TailsCut, LossBounded, Known, LastOf, Follows, Present
  <2>2. Unknown \in Belief  BY JournalAssumption DEF Unknown, Belief, Volume
  <2>3. kills' \in 0..MaxFaults
    <3>1. IsFiniteSet(cut)
      <4>1. IsFiniteSet(Entry)  BY FS_Interval, JournalAssumption DEF Entry
      <4> QED BY <1>1, <4>1, FS_Subset DEF TypeOK
    <3>2. Cardinality(cut) \in Nat  BY <3>1, FS_CardinalityType
    <3> QED BY <1>1, <1>4, <3>2, JournalAssumption DEF Kill, FaultsLeft, TypeOK
  <2>4. PythonTyped' /\ WorldTyped' /\ HistoryTyped' /\ PendingFound'
    BY <1>1, <1>4, <2>2, <2>3 DEF Kill, Goto, TypeOK, PythonTyped, WorldTyped, HistoryTyped,
         PendingFound, world, Pc, Running
  <2> QED BY <2>1, <2>4, TypeParts DEF JournalInv
<1> QED BY <1>2, <1>3, <1>4

\* JournalInv is inductive.
LEMMA JournalNext == JournalInv /\ [Next]_vars => JournalInv'
<1>1. ASSUME JournalInv, UNCHANGED vars PROVE JournalInv'
  <2>1. JournalsTyped' /\ TextInv' /\ PendingFound'
    BY <1>1, JournalsUntouched DEF vars, python
  <2> QED BY <1>1, <2>1, TypeParts DEF vars, python, world, history, JournalInv, TypeOK,
             PythonTyped, WorldTyped, HistoryTyped
<1> QED BY <1>1, TerminalStep, SyncStep, CycleStep, RotateStep, StopStep DEF Next

\* The inductive invariant of the journals holds in every reachable state.
THEOREM JournalInvariant == Spec => []JournalInv
<1>1. Init => JournalInv  BY InitInv
<1> QED BY <1>1, JournalNext, PTL DEF Spec

\* The journals, the belief and the command keep their types, for any number of
\* lines, commands, tickets and faults.
THEOREM JournalTypes == Spec => []TypeOK
<1>1. JournalInv => TypeOK  BY DEF JournalInv
<1> QED BY <1>1, JournalInvariant, PTL

\* A cut append costs at most the line after it, and never one with a verdict:
\* append_trade_journal_entry and its two siblings write behind whatever a cut
\* append left, and the rewrites leave out nothing that they do not archive.
THEOREM LinesSurvive == Spec => []LossBounded
<1>1. JournalInv => LossBounded  BY DEF JournalInv, TextInv
<1> QED BY <1>1, JournalInvariant, PTL

-----------------------------------------------------------------------------
(***************************************************************************)
(* What the trade journal tells of the end of a position.  The invariant   *)
(* TellInv follows a ticket through belief, saved state and command file:  *)
(* the lines that a ticket may still get are paid for by the times it came *)
(* to be believed and by faults (ToldOnce), and so is every ticket that    *)
(* leaves the saved state without a line, at the moment when the command   *)
(* file or the saved state can first make recovery drop it (DropsPaid).    *)
(***************************************************************************)
Ends(line, t) == line.ticket = t /\ line.event \in {"CLOSE", "EXTERNAL"}

\* The tickets whose end some line told of, and the external-close lines.
Ended == {t \in Ticket : \E e \in Known : Ends(said[e], t)}
ExternalLines ==
    [t \in Ticket |-> {e \in Known : said[e].ticket = t /\ said[e].event = "EXTERNAL"}]

\* Between two cycles the next one starts from the saved state.
Resting    == pc \in {"idle", "failed", "down"}
Recovering == pc \in {"recoverSync", "recoverSave"}
Cycling    == pc # "down" /\ ~Recovering

\* The tickets that may get an external-close line without a further fault.
Due == {t \in Ticket : mem.ticket = t \/ (Resting /\ disk.ticket = t)}

ToldOnce ==
    ~text["trade"].broken =>
        \A t \in Ticket :
            Cardinality(ExternalLines[t]) + (IF t \in Due THEN 1 ELSE 0) <= beliefs[t] + Faults

\* A position that is believed and whose end no line told of.
Open(b) == b.ticket # NoTicket /\ b.ticket \notin Ended

\* The trade journal does not parse, or will not after the next line.
Cracked == text["trade"].broken \/ text["trade"].tail # NoEntry

\* Recovery from b makes of the command that b's position is gone.
Drops(b) ==
    /\ Open(b) /\ control.id # b.command /\ control.ack # "REFUSED"
    /\ \/ control.event \in {"OPEN", "CLOSE"}
       \/ control.event = "REDUCE" /\ control.volume >= b.volume

\* The terminal or its status has more of the position than b.
Exceeded(b) ==
    \/ OpenVolume(b.ticket) > b.volume
    \/ b.ticket # NoTicket /\ status.ticket = b.ticket /\ status.volume > b.volume

\* A REDUCE of what is believed may be all that the saved state knows of.
Low ==
    /\ Open(disk)
    /\ Exceeded(disk) \/ (mem.ticket = disk.ticket /\ mem.volume > disk.volume)

\* The saved position may be dropped without a line and without a further fault.
AtRisk ==
    \/ Resting /\ Drops(disk)
    \/ pc \in {"failed", "idle"} /\ Drops(mem)
    \/ pc = "settle" /\ Cracked /\ Drops(disk)
    \/ Recovering /\ Open(disk) /\ mem.ticket # disk.ticket
    \/ Cycling /\ Cracked /\ Low

Silent  == {t \in held : t # disk.ticket /\ t \notin Ended}
CutEnds == {c \in cut : \E t \in Ticket : Ends(said[c], t)}
Excuses == kills + Cardinality(cut \ CutEnds)

DropsPaid == Cardinality(Silent) + (IF AtRisk THEN 1 ELSE 0) <= Excuses

\* Tickets are handed out in order, and the status is behind the terminal.
TicketsInv ==
    /\ \A t \in Ticket : t >= nextTicket => positions[t] = 0
    /\ mem.ticket < nextTicket /\ disk.ticket < nextTicket
    /\ status.ticket < nextTicket /\ control.ticket < nextTicket
    /\ OpenVolume(status.ticket) <= status.volume
    /\ ~status.exported => control.event # "OPEN" /\ nextTicket = 1
    /\ pc \in {"loaded", "reconciled", "decided"} => status.exported

\* What belief, saved state and command file have to do with each other.
BeliefInv ==
    /\ Cycling /\ Open(disk) => mem.ticket = disk.ticket
    /\ Recovering => \/ control.event = "NONE"
                     \/ control.id = mem.command /\ mem.command = disk.command
    /\ pc \in {"reconciled", "decided", "recoverSave"} => ~Exceeded(mem)
    /\ pc = "save" => control.event = "NONE" /\ (Cracked => ~Exceeded(mem))
    /\ pc \in {"published", "waiting"} =>
         /\ control.event = "OPEN" => mem.ticket = NoTicket
         /\ control.event \in {"CLOSE", "REDUCE"} => control.ticket = mem.ticket
         /\ control.event = "REDUCE" => control.volume < mem.volume
    /\ pc = "waiting" /\ control.event = "CLOSE" => ~Open(mem)
    /\ pc = "settle" => control.event = "NONE" \/ control.id = mem.command
    /\ pc = "settle" /\ control.event \in {"OPEN", "CLOSE"} => ~Open(disk)
    /\ Known \subseteq logged \cup cut

TellInv == TicketsInv /\ BeliefInv /\ ToldOnce /\ DropsPaid

-----------------------------------------------------------------------------
(* Finite sets of entries and tickets, and what the history counts.        *)

\* Every set of entries is finite, and so is every set of tickets.
LEMMA EntriesFinite ==
    ASSUME NEW S \in SUBSET Entry
    PROVE  IsFiniteSet(S) /\ Cardinality(S) \in Nat
<1>1. IsFiniteSet(Entry)  BY FS_Interval, JournalAssumption DEF Entry
<1>2. IsFiniteSet(S)  BY <1>1, FS_Subset
<1> QED BY <1>2, FS_CardinalityType

LEMMA TicketsFinite ==
    ASSUME NEW S \in SUBSET Ticket
    PROVE  IsFiniteSet(S) /\ Cardinality(S) \in Nat
<1>1. IsFiniteSet(Ticket)  BY FS_Interval, JournalAssumption DEF Ticket
<1>2. IsFiniteSet(S)  BY <1>1, FS_Subset
<1> QED BY <1>2, FS_CardinalityType

\* Faults and excuses are numbers, before and after a step.
LEMMA CountsTyped ==
    ASSUME JournalInv, JournalInv'
    PROVE  /\ Faults \in Nat /\ Faults' \in Nat /\ Excuses \in Nat /\ Excuses' \in Nat
           /\ \A t \in Ticket : /\ ExternalLines[t] \in SUBSET Entry
                                /\ ExternalLines'[t] \in SUBSET Entry
                                /\ beliefs[t] \in Nat /\ beliefs'[t] \in Nat
           /\ Silent \in SUBSET Ticket /\ Silent' \in SUBSET Ticket
           /\ kills \in Nat /\ kills' \in Nat
<1>1. /\ TypeOK /\ TypeOK' /\ Known \subseteq Entry /\ Known' \subseteq Entry
  <2>1. TypeOK /\ TypeOK'  BY DEF JournalInv
  <2>2. next \in 1..(MaxEntries + 1) /\ next' \in 1..(MaxEntries + 1)  BY <2>1 DEF TypeOK
  <2>3. \A n \in 1..(MaxEntries + 1) : 1..(n - 1) \subseteq Entry
    BY JournalAssumption DEF Entry
  <2> QED BY <2>1, <2>2, <2>3 DEF Known
<1>2. /\ cut \in SUBSET Entry /\ cut' \in SUBSET Entry
      /\ cut \ CutEnds \in SUBSET Entry /\ cut' \ CutEnds' \in SUBSET Entry
  BY <1>1 DEF TypeOK
<1>3. /\ Cardinality(cut) \in Nat /\ Cardinality(cut') \in Nat
      /\ Cardinality(cut \ CutEnds) \in Nat /\ Cardinality(cut' \ CutEnds') \in Nat
  BY <1>2, EntriesFinite
<1>4. kills \in Nat /\ kills' \in Nat  BY <1>1, JournalAssumption DEF TypeOK
<1>5. Faults \in Nat /\ Faults' \in Nat /\ Excuses \in Nat /\ Excuses' \in Nat
  BY <1>3, <1>4 DEF Faults, Excuses
<1>6. \A t \in Ticket : /\ ExternalLines[t] \in SUBSET Entry
                        /\ ExternalLines'[t] \in SUBSET Entry
  BY <1>1 DEF ExternalLines
<1>7. \A t \in Ticket : beliefs[t] \in Nat /\ beliefs'[t] \in Nat  BY <1>1 DEF TypeOK
<1>8. Silent \in SUBSET Ticket /\ Silent' \in SUBSET Ticket  BY <1>1 DEF TypeOK, Silent
<1> QED BY <1>4, <1>5, <1>6, <1>7, <1>8

\* What a line that is written changes.
LEMMA LineWritten ==
    ASSUME TypeOK, NEW line \in Line, next \in Entry,
           said' = [said EXCEPT ![next] = line], next' = next + 1
    PROVE  /\ Ended' = Ended \cup {t \in Ticket : Ends(line, t)}
           /\ \A t \in Ticket :
                /\ line.event # "EXTERNAL" \/ line.ticket # t => ExternalLines'[t] = ExternalLines[t]
                /\ ExternalLines'[t] \subseteq ExternalLines[t] \cup {next}
           /\ \A e \in Known : said'[e] = said[e]
           /\ Known' = Known \cup {next} /\ next \notin Known
<1>1. /\ said'[next] = line /\ \A e \in Known : said'[e] = said[e]
      /\ Known' = Known \cup {next} /\ next \notin Known
  BY JournalAssumption DEF TypeOK, Known, Entry
<1>2. Ended' = Ended \cup {t \in Ticket : Ends(line, t)}  BY <1>1 DEF Ended, Ends
<1>3. ASSUME NEW t \in Ticket
      PROVE  /\ line.event # "EXTERNAL" \/ line.ticket # t => ExternalLines'[t] = ExternalLines[t]
             /\ ExternalLines'[t] \subseteq ExternalLines[t] \cup {next}
  BY <1>1 DEF ExternalLines
<1> QED BY <1>1, <1>2, <1>3

\* One more in a set of entries, or one more of them possible.
LEMMA OneMoreEntry ==
    ASSUME NEW S \in SUBSET Entry, NEW e, NEW T \in SUBSET (S \cup {e}), e \in Entry
    PROVE  Cardinality(T) <= Cardinality(S) + 1
<1>1. IsFiniteSet(S) /\ Cardinality(S) \in Nat  BY EntriesFinite
<1>2. /\ IsFiniteSet(S \cup {e})
      /\ Cardinality(S \cup {e}) \in {Cardinality(S), Cardinality(S) + 1}
  BY <1>1, FS_AddElement
<1>3. Cardinality(T) <= Cardinality(S \cup {e}) /\ T \in SUBSET Entry  BY <1>2, FS_Subset
<1>4. Cardinality(T) \in Nat  BY <1>3, EntriesFinite
<1> QED BY <1>1, <1>2, <1>3, <1>4

\* What an append that returns changes of what TellInv counts.
LEMMA Appending ==
    ASSUME JournalInv, NEW line \in Line, Appends(line), kills' = kills,
           Known \subseteq logged \cup cut
    PROVE  /\ Ended' = Ended \cup {t \in Ticket : Ends(line, t)}
           /\ Faults' = Faults /\ Excuses' = Excuses
           /\ text["trade"].broken => text'["trade"].broken
           /\ Cracked' <=> Cracked
           /\ line.event # "EXTERNAL" => ExternalLines' = ExternalLines
           /\ next \in Entry
           /\ \A t \in Ticket :
                /\ line.ticket # t => ExternalLines'[t] = ExternalLines[t]
                /\ ExternalLines'[t] \subseteq ExternalLines[t] \cup {next}
           /\ Known' \subseteq logged' \cup cut'
<1>1. TypeOK /\ next \in Entry
  BY JournalAssumption DEF JournalInv, Appends, Writes, TypeOK, Entry
<1>2. /\ said' = [said EXCEPT ![next] = line] /\ next' = next + 1
      /\ text' = [text EXCEPT ![JournalOf(line)] = Appended(text[JournalOf(line)], next)]
      /\ cut' = cut /\ logged' = logged \cup {next}
  <2>1. text[JournalOf(line)] \in Text  BY <1>1, JournalType DEF TypeOK
  <2> QED BY <1>1, <2>1 DEF Appends, Writes
<1>3. /\ Ended' = Ended \cup {t \in Ticket : Ends(line, t)}
      /\ \A t \in Ticket :
           /\ line.event # "EXTERNAL" \/ line.ticket # t => ExternalLines'[t] = ExternalLines[t]
           /\ ExternalLines'[t] \subseteq ExternalLines[t] \cup {next}
      /\ \A e \in Known : said'[e] = said[e]
      /\ Known' = Known \cup {next}
  BY <1>1, <1>2, LineWritten
<1>4. Faults' = Faults  BY <1>2 DEF Faults
<1>5. Excuses' = Excuses
  <2>1. cut \subseteq Known  BY DEF JournalInv, TextInv, EntriesKnown
  <2>2. CutEnds' = CutEnds  BY <1>2, <1>3, <2>1 DEF CutEnds
  <2> QED BY <1>2, <2>2 DEF Excuses
<1>6. /\ text["trade"].broken => text'["trade"].broken
      /\ Cracked' <=> Cracked
  <2>1. text["trade"] \in Text /\ "trade" \in Journal  BY <1>1 DEF TypeOK, Journal
  <2>2. CASE JournalOf(line) # "trade"
    BY <1>1, <1>2, <2>1, <2>2 DEF TypeOK, Cracked
  <2>3. CASE JournalOf(line) = "trade"
    <3>1. text'["trade"] = Appended(text["trade"], next)
      BY <1>1, <1>2, <2>1, <2>3 DEF TypeOK
    <3> QED BY <2>1, <3>1 DEF Appended, Merged, Cracked, Text
  <2> QED BY <2>2, <2>3
<1>7. line.event # "EXTERNAL" => ExternalLines' = ExternalLines
  BY <1>3 DEF ExternalLines
<1>8. Known' \subseteq logged' \cup cut'  BY <1>2, <1>3
<1> QED BY <1>1, <1>3, <1>4, <1>5, <1>6, <1>7, <1>8

\* What a cut append changes of it: a fault more, and an excuse more unless the
\* line tells of the end of a position.
LEMMA Cutting ==
    ASSUME JournalInv, JournalInv', NEW line \in Line, NEW b, CutShort(line, b), kills' = kills,
           Known \subseteq logged \cup cut
    PROVE  /\ Ended' = Ended \cup {t \in Ticket : Ends(line, t)}
           /\ Faults' = Faults + 1
           /\ (\E t \in Ticket : Ends(line, t)) => Excuses' = Excuses
           /\ (\A t \in Ticket : ~Ends(line, t)) => Excuses' = Excuses + 1
           /\ text["trade"].broken => text'["trade"].broken
           /\ next \in Entry
           /\ \A t \in Ticket :
                /\ line.event # "EXTERNAL" \/ line.ticket # t => ExternalLines'[t] = ExternalLines[t]
                /\ ExternalLines'[t] \subseteq ExternalLines[t] \cup {next}
           /\ Known' \subseteq logged' \cup cut'
           /\ pc' \in {"failed", "down"} /\ (pc = "recoverSync" => pc' = "down")
           /\ pc' = "failed" => mem' = b
           /\ pc' = "down" => mem' = Unknown
           /\ beliefs' = beliefs
<1>1. TypeOK /\ next \in Entry
  BY JournalAssumption DEF JournalInv, CutShort, Writes, TypeOK, Entry
<1>2. PICK u \in CutAppends(text[JournalOf(line)], next) :
           text' = [text EXCEPT ![JournalOf(line)] = u]
  BY DEF CutShort, Writes
<1>3. /\ said' = [said EXCEPT ![next] = line] /\ next' = next + 1
      /\ cut' = cut \cup {next} /\ logged' = logged
      /\ pc' \in {"failed", "down"} /\ (pc = "recoverSync" => pc' = "down")
      /\ pc' = "failed" => mem' = b
      /\ pc' = "down" => mem' = Unknown
      /\ beliefs' = beliefs
  BY DEF CutShort, Writes
<1>4. /\ Ended' = Ended \cup {t \in Ticket : Ends(line, t)}
      /\ \A t \in Ticket :
           /\ line.event # "EXTERNAL" \/ line.ticket # t => ExternalLines'[t] = ExternalLines[t]
           /\ ExternalLines'[t] \subseteq ExternalLines[t] \cup {next}
      /\ \A e \in Known : said'[e] = said[e]
      /\ Known' = Known \cup {next} /\ next \notin Known
  BY <1>1, <1>3, LineWritten
<1>5. cut \subseteq Known /\ cut \in SUBSET Entry
  BY <1>1 DEF JournalInv, TextInv, EntriesKnown, TypeOK
<1>6. Faults' = Faults + 1
  <2>1. IsFiniteSet(cut) /\ next \notin cut  BY <1>4, <1>5, EntriesFinite
  <2>2. Cardinality(cut') = Cardinality(cut) + 1  BY <1>3, <2>1, FS_AddElement
  <2>3. Cardinality(cut) \in Nat /\ kills \in Nat
    BY <1>1, <1>5, EntriesFinite, JournalAssumption DEF TypeOK
  <2> QED BY <2>2, <2>3 DEF Faults
<1>7. said'[next] = line  BY <1>1, <1>3 DEF TypeOK
<1>8. /\ (\E t \in Ticket : Ends(line, t)) => Excuses' = Excuses
      /\ (\A t \in Ticket : ~Ends(line, t)) => Excuses' = Excuses + 1
  <2> DEFINE spent == cut \ CutEnds
  <2>1. spent \in SUBSET Entry /\ next \notin spent  BY <1>4, <1>5
  <2>2. IsFiniteSet(spent) /\ Cardinality(spent) \in Nat  BY <2>1, EntriesFinite
  <2>3. (\E t \in Ticket : Ends(line, t)) => (cut \ CutEnds)' = spent
    BY <1>3, <1>4, <1>5, <1>7 DEF CutEnds
  <2>4. (\A t \in Ticket : ~Ends(line, t)) => (cut \ CutEnds)' = spent \cup {next}
    BY <1>3, <1>4, <1>5, <1>7 DEF CutEnds
  <2>5. Cardinality(spent \cup {next}) = Cardinality(spent) + 1
    BY <2>1, <2>2, FS_AddElement
  <2>6. kills \in Nat  BY <1>1, JournalAssumption DEF TypeOK
  <2>7. CASE \E t \in Ticket : Ends(line, t)  BY <2>3, <2>7 DEF Excuses
  <2>8. CASE \A t \in Ticket : ~Ends(line, t)
    <3>1. (cut \ CutEnds)' = spent \cup {next}  BY <2>4, <2>8
    <3>2. Cardinality((cut \ CutEnds)') = Cardinality(spent) + 1  BY <2>5, <3>1
    <3> QED BY <2>2, <2>6, <2>8, <3>2 DEF Excuses
  <2> QED BY <2>7, <2>8
<1>9. text["trade"].broken => text'["trade"].broken
  <2>1. /\ text["trade"] \in Text /\ "trade" \in Journal
        /\ JournalOf(line) \in Journal /\ text[JournalOf(line)] \in Text
    BY <1>1, JournalType DEF TypeOK, Journal
  <2>2. text[JournalOf(line)].broken => u.broken  BY <1>1, <1>2, <2>1, AppendFacts
  <2> QED BY <1>1, <1>2, <2>1, <2>2 DEF TypeOK
<1>10. Known' \subseteq logged' \cup cut'  BY <1>3, <1>4
<1> QED BY <1>1, <1>3, <1>4, <1>6, <1>8, <1>9, <1>10

-----------------------------------------------------------------------------
(* How ToldOnce and DropsPaid carry over a step.                           *)

\* A step that writes no external-close line, and makes one due only for a
\* ticket that comes to be believed.
LEMMA ToldStill ==
    ASSUME JournalInv, JournalInv', ToldOnce,
           ExternalLines' = ExternalLines, Faults' = Faults,
           text["trade"].broken => text'["trade"].broken,
           \A t \in Ticket :
              /\ beliefs'[t] >= beliefs[t]
              /\ t \in Due' => t \in Due \/ beliefs'[t] >= beliefs[t] + 1
    PROVE  ToldOnce'
<1>1. SUFFICES ASSUME ~text'["trade"].broken, NEW t \in Ticket
               PROVE  Cardinality(ExternalLines'[t]) + (IF t \in Due' THEN 1 ELSE 0)
                        <= beliefs'[t] + Faults'
  BY DEF ToldOnce
<1>2. /\ Cardinality(ExternalLines[t]) + (IF t \in Due THEN 1 ELSE 0) <= beliefs[t] + Faults
      /\ beliefs[t] \in Nat /\ beliefs'[t] \in Nat /\ Faults \in Nat
      /\ Cardinality(ExternalLines[t]) \in Nat
  BY <1>1, CountsTyped, EntriesFinite DEF ToldOnce
<1>3. CASE t \in Due  BY <1>2, <1>3
<1>4. CASE t \notin Due /\ t \in Due'  BY <1>2, <1>4
<1>5. CASE t \notin Due /\ t \notin Due'  BY <1>2, <1>5
<1> QED BY <1>3, <1>4, <1>5

\* A fault pays for one line more of a ticket of which one was due, or for one
\* that comes to be due.
LEMMA ToldFault ==
    ASSUME JournalInv, JournalInv', ToldOnce, Faults' = Faults + 1, beliefs' = beliefs,
           text["trade"].broken => text'["trade"].broken,
           \A t \in Ticket :
              \/ ExternalLines'[t] = ExternalLines[t]
              \/ t \in Due /\ next \in Entry /\ ExternalLines'[t] \subseteq ExternalLines[t] \cup {next}
    PROVE  ToldOnce'
<1>1. SUFFICES ASSUME ~text'["trade"].broken, NEW t \in Ticket
               PROVE  Cardinality(ExternalLines'[t]) + (IF t \in Due' THEN 1 ELSE 0)
                        <= beliefs'[t] + Faults'
  BY DEF ToldOnce
<1>2. /\ Cardinality(ExternalLines[t]) + (IF t \in Due THEN 1 ELSE 0) <= beliefs[t] + Faults
      /\ beliefs[t] \in Nat /\ Faults \in Nat
      /\ Cardinality(ExternalLines[t]) \in Nat /\ Cardinality(ExternalLines'[t]) \in Nat
      /\ ExternalLines[t] \in SUBSET Entry
  BY <1>1, CountsTyped, EntriesFinite DEF ToldOnce
<1>3. \/ Cardinality(ExternalLines'[t]) = Cardinality(ExternalLines[t])
      \/ t \in Due /\ Cardinality(ExternalLines'[t]) <= Cardinality(ExternalLines[t]) + 1
  <2>1. CASE ExternalLines'[t] = ExternalLines[t]  BY <2>1
  <2>2. CASE t \in Due /\ next \in Entry /\ ExternalLines'[t] \subseteq ExternalLines[t] \cup {next}
    BY <1>2, <2>2, OneMoreEntry
  <2> QED BY <2>1, <2>2
<1>4. (IF t \in Due' THEN 1 ELSE 0) \in {0, 1}  OBVIOUS
<1>5. CASE t \in Due  BY <1>2, <1>3, <1>4, <1>5
<1>6. CASE t \notin Due  BY <1>2, <1>3, <1>4, <1>6
<1> QED BY <1>5, <1>6

\* A step by which no ticket leaves the saved state without a line, and after
\* which none is at risk that was not, or that an excuse pays for.
LEMMA PaidStill ==
    ASSUME JournalInv, JournalInv', DropsPaid, Silent' \subseteq Silent,
           \/ Excuses' >= Excuses /\ (AtRisk' => AtRisk)
           \/ Excuses' = Excuses + 1
    PROVE  DropsPaid'
<1>1. /\ Excuses \in Nat /\ Excuses' \in Nat
      /\ Silent \in SUBSET Ticket /\ Silent' \in SUBSET Silent
  BY CountsTyped
<1>2. IsFiniteSet(Silent) /\ Cardinality(Silent) \in Nat /\ Cardinality(Silent') \in Nat
  BY <1>1, TicketsFinite
<1>3. Cardinality(Silent') <= Cardinality(Silent)  BY <1>1, <1>2, FS_Subset
<1>4. Cardinality(Silent) + (IF AtRisk THEN 1 ELSE 0) <= Excuses  BY DEF DropsPaid
<1>5. CASE ~AtRisk'
  <2>1. Cardinality(Silent) <= Excuses /\ Excuses' >= Excuses
    BY <1>1, <1>2, <1>4
  <2>2. Cardinality(Silent') + 0 <= Excuses'  BY <1>1, <1>2, <1>3, <2>1
  <2> QED BY <1>5, <2>2 DEF DropsPaid
<1>6. CASE AtRisk'
  <2>1. Cardinality(Silent) + 1 <= Excuses'
    <3>1. CASE AtRisk /\ Excuses' >= Excuses  BY <1>1, <1>2, <1>4, <3>1
    <3>2. CASE Excuses' = Excuses + 1  BY <1>1, <1>2, <1>4, <3>2
    <3> QED BY <1>6, <3>1, <3>2
  <2>2. Cardinality(Silent') + 1 <= Excuses'  BY <1>1, <1>2, <1>3, <2>1
  <2> QED BY <1>6, <2>2 DEF DropsPaid
<1> QED BY <1>5, <1>6

\* The ticket at risk leaves the saved state.
LEMMA PaidNow ==
    ASSUME JournalInv, JournalInv', DropsPaid, ~AtRisk', Excuses' = Excuses,
           Silent' \subseteq Silent \/ (AtRisk /\ \E x : Silent' \subseteq Silent \cup {x})
    PROVE  DropsPaid'
<1>1. /\ Excuses \in Nat /\ Silent \in SUBSET Ticket /\ Silent' \in SUBSET Ticket
  BY CountsTyped
<1>2. IsFiniteSet(Silent) /\ Cardinality(Silent) \in Nat /\ Cardinality(Silent') \in Nat
  BY <1>1, TicketsFinite
<1>3. Cardinality(Silent) + (IF AtRisk THEN 1 ELSE 0) <= Excuses  BY DEF DropsPaid
<1>4. Cardinality(Silent') <= Excuses
  <2>1. CASE Silent' \subseteq Silent
    <3>1. Cardinality(Silent') <= Cardinality(Silent)  BY <1>2, <2>1, FS_Subset
    <3> QED BY <1>1, <1>2, <1>3, <3>1
  <2>2. CASE AtRisk /\ \E x : Silent' \subseteq Silent \cup {x}
    <3>1. PICK x : Silent' \subseteq Silent \cup {x}  BY <2>2
    <3>2. /\ IsFiniteSet(Silent \cup {x})
          /\ Cardinality(Silent \cup {x}) \in {Cardinality(Silent), Cardinality(Silent) + 1}
      BY <1>2, FS_AddElement
    <3>3. Cardinality(Silent') <= Cardinality(Silent \cup {x})  BY <3>1, <3>2, FS_Subset
    <3>4. Cardinality(Silent) + 1 <= Excuses  BY <1>3, <2>2
    <3> QED BY <1>1, <1>2, <3>2, <3>3, <3>4
  <2> QED BY <2>1, <2>2
<1>5. Cardinality(Silent') + 0 <= Excuses'  BY <1>1, <1>2, <1>4
<1> QED BY <1>5 DEF DropsPaid

-----------------------------------------------------------------------------
(* The steps.                                                              *)

\* Tickets and volumes are numbers.
LEMMA NumberTypes ==
    ASSUME TypeOK
    PROVE  /\ mem.ticket \in Ticket \cup {NoTicket} /\ mem.ticket \in Nat /\ mem.volume \in Nat
           /\ disk.ticket \in Ticket \cup {NoTicket} /\ disk.ticket \in Nat /\ disk.volume \in Nat
           /\ status.ticket \in Ticket \cup {NoTicket} /\ status.ticket \in Nat
           /\ status.volume \in Nat
           /\ control.ticket \in Ticket \cup {NoTicket} /\ control.ticket \in Nat
           /\ control.volume \in Nat
           /\ nextTicket \in Nat \ {0} /\ MaxTickets \in Nat
           /\ \A t \in Ticket : positions[t] \in Nat /\ t \in Nat \ {0}
<1>1. /\ \A v \in Volume : v \in Nat
      /\ \A t \in Ticket : t \in Nat \ {0}
      /\ \A t \in Ticket \cup {NoTicket} : t \in Nat
      /\ MaxTickets \in Nat
  BY JournalAssumption DEF Volume, Ticket, NoTicket
<1>2. /\ mem.ticket \in Ticket \cup {NoTicket} /\ mem.volume \in Volume
      /\ disk.ticket \in Ticket \cup {NoTicket} /\ disk.volume \in Volume
  BY DEF TypeOK, Belief
<1>3. /\ status.ticket \in Ticket \cup {NoTicket} /\ status.volume \in Volume
      /\ control.ticket \in Ticket \cup {NoTicket} /\ control.volume \in Volume
  BY DEF TypeOK, Status, Order
<1>4. nextTicket \in Nat \ {0} /\ \A t \in Ticket : positions[t] \in Volume
  BY <1>1 DEF TypeOK
<1> QED BY <1>1, <1>2, <1>3, <1>4

\* What the terminal and its EA change: positions shrink but for the new one,
\* the command keeps what was asked, the status shows what is open now.
LEMMA TerminalFacts ==
    ASSUME TypeOK, TicketsInv, Terminal
    PROVE  /\ UNCHANGED <<journals, python, history>>
           /\ nextTicket' \in Nat /\ nextTicket' >= nextTicket
           /\ \A t \in Ticket : t < nextTicket => positions'[t] <= positions[t]
           /\ \A t \in Ticket : t >= nextTicket' => positions'[t] = 0
           /\ nextTicket' # nextTicket => control.event = "OPEN"
           /\ control'.event = control.event /\ control'.id = control.id
           /\ control'.volume = control.volume /\ control'.ticket < nextTicket'
           /\ control.ack = "REFUSED" => control'.ack = "REFUSED"
           /\ control.event # "OPEN" => control'.ticket = control.ticket
           /\ \/ status' = status
              \/ /\ status'.exported /\ UNCHANGED <<positions, nextTicket>>
                 /\ status'.ticket \in Ticket \cup {NoTicket} /\ status'.ticket < nextTicket
                 /\ status'.volume = OpenVolume(status'.ticket)
<1> USE NumberTypes
<1>1. UNCHANGED <<journals, python, history>>
  BY DEF Terminal, EaOpens, EaCloses, EaModifies, EaRefuses, ExternalClose, Export
<1>2. control \in Order /\ positions \in [Ticket -> Volume]  BY DEF TypeOK
<1>3. CASE EaOpens
  <2>1. nextTicket \in Ticket /\ nextTicket' = nextTicket + 1 /\ status' = status
    BY <1>3 DEF EaOpens, Ticket
  <2>2. /\ \A t \in Ticket : t < nextTicket => positions'[t] = positions[t]
        /\ \A t \in Ticket : t >= nextTicket' => positions'[t] = 0
    BY <1>2, <1>3, <2>1 DEF EaOpens, TicketsInv
  <2>3. control' = [control EXCEPT !.ack = "SUCCESS", !.ticket = nextTicket]
        /\ control.event = "OPEN" /\ control.ack = "WAITING"
    BY <1>3 DEF EaOpens
  <2>4. /\ control'.event = control.event /\ control'.id = control.id
        /\ control'.volume = control.volume /\ control'.ticket = nextTicket
    BY <1>2, <2>3 DEF Order
  <2> QED BY <1>1, <2>1, <2>2, <2>3, <2>4
<1>4. CASE EaCloses
  <2>1. control' = [control EXCEPT !.ack = "SUCCESS"] /\ control.ack = "WAITING"
    BY <1>4 DEF EaCloses
  <2>2. /\ control'.event = control.event /\ control'.id = control.id
        /\ control'.volume = control.volume /\ control'.ticket = control.ticket
    BY <1>2, <2>1 DEF Order
  <2>3. \A t \in Ticket : positions'[t] <= positions[t] /\ (t = control.ticket \/ positions'[t] = positions[t])
    BY <1>2, <1>4 DEF EaCloses, OpenVolume
  <2>4. /\ nextTicket' = nextTicket /\ status' = status /\ control.ticket < nextTicket
        /\ \A t \in Ticket : t >= nextTicket => positions[t] = 0
    BY <1>4 DEF EaCloses, TicketsInv
  <2> QED BY <1>1, <2>1, <2>2, <2>3, <2>4
<1>5. CASE EaModifies \/ EaRefuses
  <2>1. \/ control' = [control EXCEPT !.ack = "SUCCESS"]
        \/ control' = [control EXCEPT !.ack = "REFUSED"]
    BY <1>5 DEF EaModifies, EaRefuses
  <2>2. control.ack = "WAITING"  BY <1>5 DEF EaModifies, EaRefuses
  <2>3. /\ control'.event = control.event /\ control'.id = control.id
        /\ control'.volume = control.volume /\ control'.ticket = control.ticket
    BY <1>2, <2>1 DEF Order
  <2>4. UNCHANGED <<positions, nextTicket, status>>  BY <1>5 DEF EaModifies, EaRefuses
  <2> QED BY <1>1, <2>2, <2>3, <2>4 DEF TicketsInv
<1>6. CASE ExternalClose
  <2>1. PICK t \in OpenTickets :
             \E v \in 0..(positions[t] - 1) : positions' = [positions EXCEPT ![t] = v]
    BY <1>6 DEF ExternalClose
  <2>2. PICK v \in 0..(positions[t] - 1) : positions' = [positions EXCEPT ![t] = v]
    BY <2>1
  <2>3. t \in Ticket /\ v \in Nat /\ v < positions[t]  BY DEF OpenTickets
  <2>4. UNCHANGED <<control, nextTicket, status>>  BY <1>6 DEF ExternalClose
  <2>5. \A u \in Ticket : positions'[u] <= positions[u] /\ (u = t \/ positions'[u] = positions[u])
    BY <1>2, <2>2, <2>3
  <2>6. t < nextTicket  BY <2>3 DEF TicketsInv
  <2> QED BY <1>1, <2>4, <2>5, <2>6 DEF TicketsInv
<1>7. CASE Export
  <2>1. /\ status' = [exported |-> TRUE, ticket |-> Newest, volume |-> OpenVolume(Newest)]
        /\ UNCHANGED <<control, positions, nextTicket>>
    BY <1>7 DEF Export
  <2>2. Newest \in Ticket \cup {NoTicket}  BY <1>2, NewestType
  <2>3. Newest \in OpenTickets \cup {NoTicket}
    <3>1. OpenTickets \in SUBSET (1..MaxTickets)  BY DEF OpenTickets, Ticket
    <3>2. CASE OpenTickets = {}  BY <3>2 DEF Newest
    <3>3. CASE OpenTickets # {}
      <4>1. \E t \in OpenTickets : \A u \in OpenTickets : u <= t
        BY <3>1, <3>3, MaxExists
      <4> QED BY <3>3, <4>1 DEF Newest
    <3> QED BY <3>2, <3>3
  <2>4. Newest < nextTicket  BY <2>3 DEF OpenTickets, TicketsInv, NoTicket
  <2> QED BY <1>1, <2>1, <2>2, <2>4 DEF TicketsInv
<1> QED BY <1>3, <1>4, <1>5, <1>6, <1>7 DEF Terminal

\* The terminal shows no more of a position than before.
LEMMA ExceededShrinks ==
    ASSUME TypeOK, TypeOK', TicketsInv, Terminal, NEW b \in Belief, b.ticket < nextTicket,
           OpenVolume(b.ticket)' > b.volume
             \/ (b.ticket # NoTicket /\ status'.ticket = b.ticket /\ status'.volume > b.volume)
    PROVE  Exceeded(b)
<1>1. b.ticket \in Ticket \cup {NoTicket} /\ b.volume \in Nat
  BY JournalAssumption DEF Belief, Volume
<1>2. NoTicket \notin Ticket  BY DEF NoTicket, Ticket
<1>3. OpenVolume(b.ticket)' <= OpenVolume(b.ticket)
      /\ OpenVolume(b.ticket) \in Nat /\ OpenVolume(b.ticket)' \in Nat
  <2>1. CASE b.ticket = NoTicket  BY <1>2, <2>1 DEF OpenVolume
  <2>2. CASE b.ticket \in Ticket
    <3>1. positions'[b.ticket] <= positions[b.ticket]  BY <2>2, TerminalFacts
    <3>2. positions[b.ticket] \in Nat /\ positions'[b.ticket] \in Nat
      BY <2>2, JournalAssumption DEF TypeOK, Volume
    <3> QED BY <2>2, <3>1, <3>2 DEF OpenVolume
  <2> QED BY <1>1, <2>1, <2>2
<1> QED BY <1>1, <1>3, TerminalFacts DEF Exceeded

\* A step that writes no line and costs no fault.
LEMMA NothingSaid ==
    ASSUME UNCHANGED <<said, next, cut, kills>>
    PROVE  /\ Ended' = Ended /\ ExternalLines' = ExternalLines
           /\ Faults' = Faults /\ Excuses' = Excuses
           /\ Known' = Known
<1>1. Known' = Known  BY DEF Known
<1>2. Ended' = Ended /\ ExternalLines' = ExternalLines  BY <1>1 DEF Ended, ExternalLines, Ends
<1>3. Faults' = Faults  BY DEF Faults
<1>4. CutEnds' = CutEnds  BY DEF CutEnds, Ends
<1>5. Excuses' = Excuses  BY <1>4 DEF Excuses
<1> QED BY <1>1, <1>2, <1>3, <1>5

\* Nor does it touch a journal.
LEMMA NothingWritten ==
    ASSUME UNCHANGED <<text, said, next, cut, kills>>
    PROVE  /\ Ended' = Ended /\ ExternalLines' = ExternalLines
           /\ Faults' = Faults /\ Excuses' = Excuses
           /\ Cracked' <=> Cracked
           /\ Known' = Known
<1>1. Cracked' <=> Cracked  BY DEF Cracked
<1> QED BY <1>1, NothingSaid

\* The terminal, its EA and its status file owe nothing to the journal.
LEMMA TerminalTells == JournalInv /\ JournalInv' /\ TellInv /\ Terminal => TellInv'
<1> SUFFICES ASSUME JournalInv, JournalInv', TellInv, Terminal
             PROVE  TellInv'
  OBVIOUS
<1>1. TypeOK /\ TypeOK' /\ TicketsInv /\ BeliefInv /\ ToldOnce /\ DropsPaid
  BY DEF JournalInv, TellInv
<1>2. UNCHANGED <<journals, python, history>>  BY <1>1, TerminalFacts
<1>3. /\ UNCHANGED <<text, said, next, cut, logged, disk, mem, pc, kills, beliefs, held>>
  BY <1>2 DEF journals, python, history
<1>4. /\ Ended' = Ended /\ ExternalLines' = ExternalLines
      /\ Faults' = Faults /\ Excuses' = Excuses
      /\ Cracked' <=> Cracked
      /\ Known' = Known
  BY <1>3, NothingWritten
<1>5. /\ Resting' = Resting /\ Recovering' = Recovering /\ Cycling' = Cycling
      /\ Due' = Due /\ Silent' = Silent
  BY <1>3, <1>4 DEF Resting, Recovering, Cycling, Due, Silent
<1>6. /\ mem \in Belief /\ disk \in Belief
      /\ mem.ticket < nextTicket /\ disk.ticket < nextTicket
  BY <1>1 DEF TypeOK, TicketsInv
<1>7. /\ Exceeded(mem)' => Exceeded(mem)
      /\ Exceeded(disk)' => Exceeded(disk)
  <2>1. ASSUME NEW b \in Belief, b.ticket < nextTicket,
               OpenVolume(b.ticket)' > b.volume
                 \/ (b.ticket # NoTicket /\ status'.ticket = b.ticket /\ status'.volume > b.volume)
        PROVE  Exceeded(b)
    BY <1>1, <2>1, ExceededShrinks
  <2>2. mem' = mem /\ disk' = disk  BY <1>3
  <2> QED BY <1>6, <2>1, <2>2 DEF Exceeded, OpenVolume
<1>8. TicketsInv'
  <2>1. /\ \A t \in Ticket : t >= nextTicket' => positions'[t] = 0
        /\ nextTicket' \in Nat /\ nextTicket' >= nextTicket /\ control'.ticket < nextTicket'
    BY <1>1, TerminalFacts
  <2>2. /\ nextTicket \in Nat /\ mem.ticket \in Nat /\ disk.ticket \in Nat /\ status.ticket \in Nat
        /\ status.volume \in Nat /\ status.ticket \in Ticket \cup {NoTicket}
    BY <1>1, NumberTypes
  <2>3. mem'.ticket < nextTicket' /\ disk'.ticket < nextTicket'
    BY <1>3, <1>6, <2>1, <2>2
  <2>4. ~status'.exported => control'.event # "OPEN" /\ nextTicket' = 1
    BY <1>1, TerminalFacts DEF TicketsInv
  <2>5. pc' \in {"loaded", "reconciled", "decided"} => status'.exported
    BY <1>1, <1>3, TerminalFacts DEF TicketsInv
  <2>6. status'.ticket < nextTicket' /\ OpenVolume(status.ticket)' <= status'.volume
    <3>1. CASE status' = status
      <4>1. status.ticket < nextTicket /\ OpenVolume(status.ticket) <= status.volume
        BY <1>1 DEF TicketsInv
      <4>2. CASE status.ticket \in Ticket
        <5>1. positions'[status.ticket] <= positions[status.ticket]
          BY <1>1, <4>1, <4>2, TerminalFacts
        <5>2. positions'[status.ticket] \in Nat /\ positions[status.ticket] \in Nat
          BY <1>1, <4>2, JournalAssumption DEF TypeOK, Volume
        <5> QED BY <2>1, <2>2, <3>1, <4>1, <4>2, <5>1, <5>2 DEF OpenVolume
      <4>3. CASE status.ticket \notin Ticket
        BY <2>1, <2>2, <3>1, <4>1, <4>3 DEF OpenVolume
      <4> QED BY <4>2, <4>3
    <3>2. CASE status' # status
      <4>1. /\ UNCHANGED <<positions, nextTicket>>
            /\ status'.ticket < nextTicket
            /\ status'.volume = OpenVolume(status'.ticket)
        BY <1>1, <3>2, TerminalFacts
      <4>2. status'.volume \in Nat  BY <1>1, JournalAssumption DEF TypeOK, Status, Volume
      <4> QED BY <4>1, <4>2 DEF OpenVolume
    <3> QED BY <3>1, <3>2
  <2> QED BY <2>1, <2>3, <2>4, <2>5, <2>6 DEF TicketsInv
<1>9. /\ control'.event = control.event /\ control'.id = control.id
      /\ control'.volume = control.volume
      /\ control.ack = "REFUSED" => control'.ack = "REFUSED"
      /\ control.event # "OPEN" => control'.ticket = control.ticket
  BY <1>1, TerminalFacts
<1>10. BeliefInv'
  BY <1>1, <1>3, <1>4, <1>5, <1>7, <1>9 DEF BeliefInv, Open
<1>11. ToldOnce'
  <2>1. \A t \in Ticket : beliefs'[t] >= beliefs[t]  BY <1>1, <1>3 DEF TypeOK
  <2> QED BY <1>1, <1>3, <1>4, <1>5, <2>1, ToldStill
<1>12. DropsPaid'
  <2>1. /\ Drops(disk)' => Drops(disk)
        /\ Drops(mem)' => Drops(mem)
    BY <1>3, <1>4, <1>9 DEF Drops, Open
  <2>2. AtRisk' => AtRisk
    BY <1>3, <1>4, <1>5, <1>7, <2>1 DEF AtRisk, Low, Open
  <2>3. Excuses' >= Excuses  BY <1>4, CountsTyped
  <2> QED BY <1>1, <1>5, <2>2, <2>3, PaidStill
<1> QED BY <1>8, <1>10, <1>11, <1>12 DEF TellInv

\* A cut append, of a line that tells of the position that is believed or of
\* no end at all.
LEMMA CutTells ==
    ASSUME JournalInv, JournalInv', TellInv,
           NEW line \in Line, NEW b, CutShort(line, b), UNCHANGED <<disk, world, kills, held>>,
           b.ticket = mem.ticket,
           line.ticket = mem.ticket \/ \A t \in Ticket : ~Ends(line, t),
           pc \in {"loaded", "recoverSync", "reconciled", "published", "waiting", "failed"}
    PROVE  TellInv'
<1>1. TypeOK /\ TypeOK' /\ TicketsInv /\ BeliefInv /\ ToldOnce /\ DropsPaid
  BY DEF JournalInv, TellInv
<1>2. /\ Ended' = Ended \cup {t \in Ticket : Ends(line, t)}
      /\ Faults' = Faults + 1
      /\ (\E t \in Ticket : Ends(line, t)) => Excuses' = Excuses
      /\ (\A t \in Ticket : ~Ends(line, t)) => Excuses' = Excuses + 1
      /\ text["trade"].broken => text'["trade"].broken
      /\ next \in Entry
      /\ \A t \in Ticket :
           /\ line.event # "EXTERNAL" \/ line.ticket # t => ExternalLines'[t] = ExternalLines[t]
           /\ ExternalLines'[t] \subseteq ExternalLines[t] \cup {next}
      /\ Known' \subseteq logged' \cup cut'
      /\ beliefs' = beliefs
  BY <1>1, Cutting DEF BeliefInv
<1>3. /\ pc' \in {"failed", "down"} /\ (pc = "recoverSync" => pc' = "down")
      /\ pc' = "failed" => mem' = b
      /\ pc' = "down" => mem' = Unknown
  BY <1>1, Cutting DEF BeliefInv
<1>4. /\ disk' = disk /\ held' = held /\ control' = control /\ status' = status
      /\ positions' = positions /\ nextTicket' = nextTicket
  BY DEF world
<1>5. mem'.ticket \in {mem.ticket, NoTicket} /\ (pc' = "failed" => mem'.ticket = mem.ticket)
  BY <1>3 DEF Unknown
<1>6. Cycling => (Open(disk) => mem.ticket = disk.ticket)  BY <1>1 DEF BeliefInv
<1>7. TicketsInv'
  BY <1>1, <1>3, <1>4, <1>5, NumberTypes DEF TicketsInv, OpenVolume, NoTicket
<1>8. BeliefInv'
  BY <1>2, <1>3, <1>4, <1>5, <1>6 DEF BeliefInv, Open, Cycling, Recovering
<1>9. ToldOnce'
  <2>1. ASSUME NEW t \in Ticket, ExternalLines'[t] # ExternalLines[t]
        PROVE  t \in Due
    BY <1>2, <2>1 DEF Due, Ends
  <2> QED BY <1>1, <1>2, <2>1, ToldFault
<1>10. DropsPaid'
  <2>1. Silent' \subseteq Silent  BY <1>2, <1>4 DEF Silent
  <2>2. CASE \A t \in Ticket : ~Ends(line, t)  BY <1>1, <1>2, <2>1, <2>2, PaidStill
  <2>3. CASE \E t \in Ticket : Ends(line, t)
    <3>1. mem.ticket \in Ended'  BY <1>2, <2>3 DEF Ends
    <3>2. ~Drops(mem)' \/ pc' # "failed"  BY <1>5, <3>1 DEF Drops, Open
    <3>3. ~Drops(disk)'
      <4>1. Open(disk)' => Open(disk)  BY <1>2, <1>4 DEF Open
      <4>2. CASE pc # "recoverSync"
        BY <1>4, <1>6, <3>1, <4>1, <4>2 DEF Drops, Open, Cycling, Recovering
      <4>3. CASE pc = "recoverSync"
        BY <1>1, <1>4, <4>3 DEF Drops, BeliefInv, Recovering
      <4> QED BY <4>2, <4>3
    <3>4. ~AtRisk'
      <4>1. ~Recovering'  BY <1>3 DEF Recovering
      <4>2. ~(Cycling' /\ Low')
        <5>1. Cycling' => pc # "recoverSync" /\ Cycling
          BY <1>3 DEF Cycling, Recovering
        <5>2. Low' => Open(disk)' /\ Open(disk)  BY <1>2, <1>4 DEF Low, Open
        <5> QED BY <1>4, <1>6, <3>1, <5>1, <5>2 DEF Open
      <4> QED BY <1>3, <3>2, <3>3, <4>1, <4>2 DEF AtRisk
    <3>5. Excuses' >= Excuses  BY <1>2, <2>3, CountsTyped
    <3> QED BY <1>1, <2>1, <3>4, <3>5, PaidStill
  <2> QED BY <2>2, <2>3
<1> QED BY <1>7, <1>8, <1>9, <1>10 DEF TellInv

\* The line that was due is written, and the position believed no more.
LEMMA LogExternalCloseTells ==
    JournalInv /\ JournalInv' /\ TellInv /\ LogExternalClose => TellInv'
<1> SUFFICES ASSUME JournalInv, JournalInv', TellInv, LogExternalClose
             PROVE  TellInv'
  OBVIOUS
<1> DEFINE line == [event |-> "EXTERNAL", ticket |-> mem.ticket]
<1>1. TypeOK /\ TypeOK' /\ TicketsInv /\ BeliefInv /\ ToldOnce /\ DropsPaid
  BY DEF JournalInv, TellInv
<1>2. /\ line \in Line /\ UNCHANGED <<disk, world, kills, held>>
      /\ pc \in {"loaded", "recoverSync"} /\ status.exported
      /\ mem.ticket # NoTicket /\ mem.ticket \in Ticket
  BY <1>1, LineTypes, NumberTypes DEF LogExternalClose, Reconciling, Lost
<1>3. CASE CutShort(line, mem)  BY <1>1, <1>2, <1>3, CutTells
<1>4. CASE Appends(line) /\ Believes(Cleared(mem)) /\ Goto(AfterSync)
  <2>1. /\ Ended' = Ended \cup {t \in Ticket : Ends(line, t)}
        /\ Faults' = Faults /\ Excuses' = Excuses
        /\ text["trade"].broken => text'["trade"].broken
        /\ Cracked' <=> Cracked
        /\ next \in Entry
        /\ \A t \in Ticket :
             /\ line.ticket # t => ExternalLines'[t] = ExternalLines[t]
             /\ ExternalLines'[t] \subseteq ExternalLines[t] \cup {next}
        /\ Known' \subseteq logged' \cup cut'
    BY <1>1, <1>2, <1>4, Appending DEF BeliefInv
  <2>2. Ended' = Ended \cup {mem.ticket}  BY <1>2, <2>1 DEF Ends
  <2>3. /\ mem'.ticket = NoTicket /\ mem'.volume = 0 /\ mem'.command = mem.command
        /\ beliefs' = beliefs
    BY <1>1, <1>4 DEF Believes, Cleared, TypeOK, Belief
  <2>4. /\ pc = "loaded" => pc' = "reconciled"
        /\ pc = "recoverSync" => pc' = "recoverSave"
    BY <1>4 DEF Goto, AfterSync
  <2>5. /\ disk' = disk /\ held' = held /\ control' = control /\ status' = status
        /\ positions' = positions /\ nextTicket' = nextTicket
    BY <1>2 DEF world
  <2>6. pc = "loaded" => (Open(disk) => mem.ticket = disk.ticket)
    BY <1>1 DEF BeliefInv, Cycling, Recovering
  <2>7. TicketsInv'
    BY <1>1, <1>2, <2>3, <2>5, NumberTypes DEF TicketsInv, OpenVolume, NoTicket
  <2>8. BeliefInv'
    <3>1. ~Exceeded(mem)'
      BY <2>3 DEF Exceeded, OpenVolume, NoTicket, Ticket
    <3>2. pc = "loaded" => ~Open(disk)'  BY <2>2, <2>5, <2>6 DEF Open
    <3> QED BY <1>1, <1>2, <2>1, <2>3, <2>4, <2>5, <3>1, <3>2 DEF BeliefInv, Cycling, Recovering
  <2>9. ToldOnce'
    <3>1. SUFFICES ASSUME ~text'["trade"].broken, NEW t \in Ticket
                   PROVE  Cardinality(ExternalLines'[t]) + (IF t \in Due' THEN 1 ELSE 0)
                            <= beliefs'[t] + Faults'
      BY DEF ToldOnce
    <3>2. t \notin Due'
      BY <1>2, <2>3, <2>4 DEF Due, Resting, NoTicket, Ticket
    <3>3. /\ Cardinality(ExternalLines[t]) + (IF t \in Due THEN 1 ELSE 0) <= beliefs[t] + Faults
          /\ beliefs[t] \in Nat /\ Faults \in Nat
          /\ Cardinality(ExternalLines[t]) \in Nat /\ Cardinality(ExternalLines'[t]) \in Nat
          /\ ExternalLines[t] \in SUBSET Entry
      BY <1>1, <2>1, <3>1, CountsTyped, EntriesFinite DEF ToldOnce
    <3>4. CASE t = mem.ticket
      <4>1. Cardinality(ExternalLines'[t]) <= Cardinality(ExternalLines[t]) + 1
        BY <2>1, <3>3, OneMoreEntry
      <4>2. t \in Due  BY <3>4 DEF Due
      <4>3. Cardinality(ExternalLines[t]) + 1 <= beliefs[t] + Faults  BY <3>3, <4>2
      <4>4. Cardinality(ExternalLines'[t]) <= beliefs[t] + Faults  BY <3>3, <4>1, <4>3
      <4> QED BY <2>1, <2>3, <3>2, <3>3, <4>4
    <3>5. CASE t # mem.ticket
      <4>1. ExternalLines'[t] = ExternalLines[t]  BY <2>1, <3>5
      <4>2. Cardinality(ExternalLines[t]) <= beliefs[t] + Faults
        BY <3>3
      <4> QED BY <2>1, <2>3, <3>2, <3>3, <4>1, <4>2
    <3> QED BY <3>4, <3>5
  <2>10. DropsPaid'
    <3>1. Silent' \subseteq Silent  BY <2>2, <2>5 DEF Silent
    <3>2. Open(disk)' => Open(disk) /\ disk.ticket # mem.ticket  BY <2>2, <2>5 DEF Open
    <3>3. CASE pc = "loaded"
      BY <1>1, <2>1, <2>4, <2>6, <3>1, <3>2, <3>3, PaidStill, CountsTyped
      DEF AtRisk, Low, Resting, Recovering
    <3>4. CASE pc = "recoverSync"
      <4>1. AtRisk' => AtRisk
        BY <2>4, <3>2, <3>4 DEF AtRisk, Resting, Recovering, Cycling
      <4> QED BY <1>1, <2>1, <3>1, <4>1, PaidStill, CountsTyped
    <3> QED BY <1>2, <3>3, <3>4
  <2> QED BY <2>7, <2>8, <2>9, <2>10 DEF TellInv
<1> QED BY <1>3, <1>4 DEF LogExternalClose

\* The belief becomes what the status says, and the journals say no end.
LEMMA SyncTells ==
    ASSUME JournalInv, JournalInv', TellInv, pc \in {"loaded", "recoverSync"}, Goto(AfterSync),
           UNCHANGED <<disk, world, kills, held>>,
           Ended' = Ended, ExternalLines' = ExternalLines, Faults' = Faults,
           Excuses' = Excuses, text["trade"].broken => text'["trade"].broken,
           Cracked' <=> Cracked, Known' \subseteq logged' \cup cut',
           status.exported,
           mem.ticket \in {NoTicket, status.ticket},
           mem' = [mem EXCEPT !.ticket = status.ticket, !.volume = status.volume],
           beliefs' = IF status.ticket \notin {NoTicket, mem.ticket}
                        THEN [beliefs EXCEPT ![status.ticket] = @ + 1] ELSE beliefs
    PROVE  TellInv'
<1>1. TypeOK /\ TypeOK' /\ TicketsInv /\ BeliefInv /\ ToldOnce /\ DropsPaid
  BY DEF JournalInv, TellInv
<1>2. /\ mem'.ticket = status.ticket /\ mem'.volume = status.volume
      /\ mem'.command = mem.command
  BY <1>1 DEF TypeOK, Belief
<1>3. /\ pc = "loaded" => pc' = "reconciled"
      /\ pc = "recoverSync" => pc' = "recoverSave"
  BY DEF Goto, AfterSync
<1>4. /\ disk' = disk /\ held' = held /\ control' = control /\ status' = status
      /\ positions' = positions /\ nextTicket' = nextTicket
  BY DEF world
<1>5. pc = "loaded" => (Open(disk) => mem.ticket = disk.ticket)
  BY <1>1 DEF BeliefInv, Cycling, Recovering
<1>6. /\ status.ticket \in Ticket \cup {NoTicket} /\ status.ticket < nextTicket
      /\ OpenVolume(status.ticket) <= status.volume
      /\ status.volume \in Nat /\ disk.volume \in Nat /\ mem.volume \in Nat
  BY <1>1, NumberTypes DEF TicketsInv
<1>7. TicketsInv'
  BY <1>1, <1>2, <1>4, <1>6 DEF TicketsInv, OpenVolume
<1>8. ~Exceeded(mem)'
  <2>1. OpenVolume(mem.ticket)' \in Nat /\ OpenVolume(mem.ticket)' <= mem'.volume
    <3>1. \A t \in Ticket : positions[t] \in Nat  BY <1>1, NumberTypes
    <3> QED BY <1>2, <1>4, <1>6, <3>1 DEF OpenVolume
  <2> QED BY <1>2, <1>4, <1>6, <2>1 DEF Exceeded
<1>9. BeliefInv'
  <2>1. Open(disk)' => Open(disk) /\ disk'.ticket = disk.ticket  BY <1>4 DEF Open
  <2>2. pc = "loaded" => (Open(disk)' => mem'.ticket = disk'.ticket)
    BY <1>2, <1>4, <1>5, <2>1 DEF Open
  <2> QED BY <1>1, <1>2, <1>3, <1>4, <1>8, <2>2 DEF BeliefInv, Cycling, Recovering
<1>10. ToldOnce'
  <2>1. ASSUME NEW t \in Ticket
        PROVE  /\ beliefs'[t] >= beliefs[t]
               /\ t \in Due' => t \in Due \/ beliefs'[t] >= beliefs[t] + 1
    <3>1. beliefs \in [Ticket -> Nat]  BY <1>1 DEF TypeOK
    <3>2. t \in Due' => t = status.ticket /\ t # NoTicket
      BY <1>2, <1>3 DEF Due, Resting, Ticket, NoTicket
    <3>3. t = mem.ticket => t \in Due  BY DEF Due
    <3> QED BY <3>1, <3>2, <3>3
  <2> QED BY <1>1, <2>1, ToldStill
<1>11. DropsPaid'
  <2>1. Silent' = Silent  BY <1>4 DEF Silent
  <2>2. Open(disk)' <=> Open(disk)  BY <1>4 DEF Open
  <2>3. CASE pc = "loaded"
    <3>1. Exceeded(disk)' <=> Exceeded(disk)  BY <1>4 DEF Exceeded, OpenVolume
    <3>2. Low' => Low
      BY <1>2, <1>4, <1>6, <2>2, <3>1 DEF Low, Exceeded, Open
    <3>3. AtRisk' => AtRisk
      BY <1>3, <2>3, <3>2 DEF AtRisk, Resting, Recovering, Cycling
    <3> QED BY <1>1, <2>1, <3>3, PaidStill, CountsTyped
  <2>4. CASE pc = "recoverSync"
    <3>1. AtRisk' => AtRisk
      BY <1>2, <1>3, <1>4, <2>2, <2>4 DEF AtRisk, Resting, Recovering, Cycling, Open
    <3> QED BY <1>1, <2>1, <3>1, PaidStill, CountsTyped
  <2> QED BY <2>3, <2>4
<1> QED BY <1>7, <1>9, <1>10, <1>11 DEF TellInv

\* The three outcomes of reconcile_position_with_status.
LEMMA SyncStepTells == JournalInv /\ JournalInv' /\ TellInv /\ Sync => TellInv'
<1> SUFFICES ASSUME JournalInv, JournalInv', TellInv, Sync
             PROVE  TellInv'
  OBVIOUS
<1>1. TypeOK /\ TypeOK' /\ TicketsInv /\ BeliefInv /\ ToldOnce /\ DropsPaid
  BY DEF JournalInv, TellInv
<1>2. mem \in Belief  BY <1>1 DEF TypeOK
<1>3. CASE LogPartialClose
  <2> DEFINE line    == [event |-> "PARTIAL", ticket |-> mem.ticket]
             smaller == [mem EXCEPT !.volume = status.volume]
  <2>1. /\ line \in Line /\ UNCHANGED <<disk, world, kills, held>>
        /\ pc \in {"loaded", "recoverSync"} /\ status.exported
        /\ mem.ticket = status.ticket
    BY <1>1, <1>3, LineTypes DEF LogPartialClose, Reconciling, Reduced
  <2>2. \A t \in Ticket : ~Ends(line, t)  BY DEF Ends
  <2>3. smaller.ticket = mem.ticket  BY <1>2 DEF Belief
  <2>4. CASE CutShort(line, smaller)  BY <1>1, <2>1, <2>2, <2>3, <2>4, CutTells
  <2>5. CASE Appends(line) /\ Believes(smaller) /\ Goto(AfterSync)
    <3>1. /\ Ended' = Ended \cup {t \in Ticket : Ends(line, t)}
          /\ Faults' = Faults /\ Excuses' = Excuses
          /\ text["trade"].broken => text'["trade"].broken
          /\ Cracked' <=> Cracked
          /\ ExternalLines' = ExternalLines
          /\ Known' \subseteq logged' \cup cut'
      BY <1>1, <2>1, <2>5, Appending DEF BeliefInv
    <3>2. Ended' = Ended  BY <2>2, <3>1
    <3>3. /\ mem' = [mem EXCEPT !.ticket = status.ticket, !.volume = status.volume]
          /\ beliefs' = beliefs
      BY <1>2, <2>1, <2>3, <2>5 DEF Believes, Belief
    <3> QED BY <2>1, <2>5, <3>1, <3>2, <3>3, SyncTells
  <2> QED BY <1>3, <2>4, <2>5 DEF LogPartialClose
<1>4. CASE SyncSilently
  <2>1. /\ pc \in {"loaded", "recoverSync"} /\ Goto(AfterSync)
        /\ UNCHANGED <<journals, disk, pending, world, kills, held>>
    BY <1>4 DEF SyncSilently, Reconciling
  <2>2. /\ Ended' = Ended /\ ExternalLines' = ExternalLines
        /\ Faults' = Faults /\ Excuses' = Excuses
        /\ Cracked' <=> Cracked
        /\ Known' = Known
        /\ text' = text /\ logged' = logged /\ cut' = cut
    BY <2>1, NothingWritten DEF journals
  <2>3. Known' \subseteq logged' \cup cut'  BY <1>1, <2>2 DEF BeliefInv
  <2>4. CASE status.exported
    <3>1. /\ mem.ticket \in {NoTicket, status.ticket}
          /\ mem' = [mem EXCEPT !.ticket = status.ticket, !.volume = status.volume]
          /\ Believes([mem EXCEPT !.ticket = status.ticket, !.volume = status.volume])
      BY <1>4, <2>4 DEF SyncSilently, Lost, Believes
    <3>2. [mem EXCEPT !.ticket = status.ticket, !.volume = status.volume].ticket = status.ticket
      BY <1>2 DEF Belief
    <3>3. beliefs' = IF status.ticket \notin {NoTicket, mem.ticket}
                       THEN [beliefs EXCEPT ![status.ticket] = @ + 1] ELSE beliefs
      BY <3>1, <3>2 DEF Believes
    <3> QED BY <2>1, <2>2, <2>3, <2>4, <3>1, <3>3, SyncTells
  <2>5. CASE ~status.exported
    <3>1. /\ pc = "recoverSync" /\ pc' = "recoverSave" /\ mem' = mem /\ beliefs' = beliefs
      BY <1>4, <2>1, <2>5 DEF SyncSilently, Goto, AfterSync
    <3>2. /\ disk' = disk /\ held' = held /\ control' = control /\ status' = status
          /\ positions' = positions /\ nextTicket' = nextTicket
      BY <2>1 DEF world
    <3>3. mem.ticket = NoTicket
      BY <1>1, <2>5, NumberTypes DEF TicketsInv, NoTicket
    <3>4. ~Exceeded(mem)'
      <4>1. mem.volume \in Nat  BY <1>1, NumberTypes
      <4> QED BY <3>1, <3>3, <4>1 DEF Exceeded, OpenVolume, NoTicket, Ticket
    <3>5. TicketsInv'  BY <1>1, <3>1, <3>2 DEF TicketsInv, OpenVolume
    <3>6. BeliefInv'
      BY <1>1, <2>3, <3>1, <3>2, <3>4 DEF BeliefInv, Cycling, Recovering
    <3>7. ToldOnce'
      <4>1. \A t \in Ticket : beliefs'[t] >= beliefs[t]  BY <1>1, <3>1 DEF TypeOK
      <4>2. \A t \in Ticket : t \in Due' => t \in Due  BY <3>1 DEF Due, Resting
      <4> QED BY <1>1, <2>2, <4>1, <4>2, ToldStill
    <3>8. DropsPaid'
      <4>1. Silent' = Silent  BY <2>2, <3>2 DEF Silent
      <4>2. AtRisk' => AtRisk
        BY <2>2, <3>1, <3>2 DEF AtRisk, Resting, Recovering, Cycling, Open
      <4> QED BY <1>1, <2>2, <4>1, <4>2, PaidStill, CountsTyped
    <3> QED BY <3>5, <3>6, <3>7, <3>8 DEF TellInv
  <2> QED BY <2>4, <2>5
<1> QED BY <1>3, <1>4, LogExternalCloseTells DEF Sync

\* What the two kinds of a step of a cycle leave: those that touch no journal,
\* and those that append a line to the decision or the error journal.
Quietly ==
    /\ Ended' = Ended /\ ExternalLines' = ExternalLines
    /\ Faults' = Faults /\ Excuses' = Excuses
    /\ text["trade"].broken => text'["trade"].broken
    /\ Cracked' <=> Cracked
    /\ Known' \subseteq logged' \cup cut'
    /\ UNCHANGED <<positions, nextTicket, status>>

\* A step without a line is quiet.
LEMMA QuietUntouched ==
    ASSUME BeliefInv, UNCHANGED <<journals, kills, positions, nextTicket, status>>
    PROVE  Quietly
<1>1. UNCHANGED <<text, said, next, cut, kills, logged>>  BY DEF journals
<1>2. /\ Ended' = Ended /\ ExternalLines' = ExternalLines
      /\ Faults' = Faults /\ Excuses' = Excuses
      /\ Cracked' <=> Cracked
      /\ Known' = Known
  BY <1>1, NothingWritten
<1> QED BY <1>1, <1>2 DEF Quietly, BeliefInv

\* A line that tells of no end is quiet.
LEMMA QuietAppend ==
    ASSUME JournalInv, BeliefInv, NEW line \in Line, Appends(line),
           \A t \in Ticket : ~Ends(line, t),
           UNCHANGED <<kills, positions, nextTicket, status>>
    PROVE  Quietly
<1>1. /\ Ended' = Ended \cup {t \in Ticket : Ends(line, t)}
      /\ Faults' = Faults /\ Excuses' = Excuses
      /\ text["trade"].broken => text'["trade"].broken
      /\ Cracked' <=> Cracked
      /\ Known' \subseteq logged' \cup cut'
      /\ \A t \in Ticket :
           /\ line.ticket # t => ExternalLines'[t] = ExternalLines[t]
      /\ line.event # "EXTERNAL" => ExternalLines' = ExternalLines
  BY Appending DEF BeliefInv
<1>2. Ended' = Ended  BY <1>1
<1>3. ExternalLines' = ExternalLines
  <2>1. CASE line.event = "EXTERNAL"
    BY <1>1, <2>1 DEF ExternalLines, Ends
  <2> QED BY <1>1, <2>1
<1> QED BY <1>1, <1>2, <1>3 DEF Quietly

\* The next cycle begins, or fails to begin, with the saved state.
LEMMA BeginTells ==
    JournalInv /\ JournalInv' /\ TellInv /\ (BeginCycle \/ CycleLogsError) => TellInv'
<1> SUFFICES ASSUME JournalInv, JournalInv', TellInv, BeginCycle \/ CycleLogsError
             PROVE  TellInv'
  OBVIOUS
<1>1. TypeOK /\ TypeOK' /\ TicketsInv /\ BeliefInv /\ ToldOnce /\ DropsPaid
  BY DEF JournalInv, TellInv
<1>2. /\ pc = "idle" /\ pc' \in {"loaded", "failed"} /\ (pc' = "loaded" => status.exported)
      /\ mem' = disk /\ UNCHANGED <<journals, disk, pending, world, history>>
  BY DEF BeginCycle, CycleLogsError, Goto
<1>3. UNCHANGED <<disk, control, kills, held, beliefs, positions, nextTicket, status>>
  BY <1>2 DEF world, history
<1>4. Quietly  BY <1>1, <1>2, <1>3, QuietUntouched
<1>5. TicketsInv'
  BY <1>1, <1>2, <1>3, <1>4 DEF Quietly, TicketsInv, OpenVolume
<1>6. BeliefInv'
  BY <1>2, <1>3, <1>4 DEF Quietly, BeliefInv, Cycling, Recovering
<1>7. ToldOnce'
  <2>1. \A t \in Ticket : beliefs'[t] >= beliefs[t]  BY <1>1, <1>3 DEF TypeOK
  <2>2. \A t \in Ticket : t \in Due' => t \in Due  BY <1>2, <1>3 DEF Due, Resting
  <2> QED BY <1>1, <1>4, <2>1, <2>2, ToldStill DEF Quietly
<1>8. DropsPaid'
  <2>1. Silent' = Silent  BY <1>3, <1>4 DEF Quietly, Silent
  <2>2. Low' => Low
    <3>1. ~(mem'.volume > disk'.volume)  BY <1>1, <1>2, <1>3, NumberTypes
    <3> QED BY <1>3, <1>4, <3>1 DEF Quietly, Low, Open, Exceeded, OpenVolume
  <2>3. Drops(mem)' \/ Drops(disk)' => Drops(disk)
    BY <1>2, <1>3, <1>4 DEF Quietly, Drops, Open
  <2>4. AtRisk' => AtRisk
    BY <1>2, <1>4, <2>2, <2>3 DEF Quietly, AtRisk, Resting, Recovering, Cycling
  <2> QED BY <1>1, <1>4, <2>1, <2>4, PaidStill, CountsTyped DEF Quietly
<1> QED BY <1>5, <1>6, <1>7, <1>8 DEF TellInv

\* The decision is logged.
LEMMA LogDecisionTells == JournalInv /\ JournalInv' /\ TellInv /\ LogDecision => TellInv'
<1> SUFFICES ASSUME JournalInv, JournalInv', TellInv, LogDecision
             PROVE  TellInv'
  OBVIOUS
<1>1. TypeOK /\ TypeOK' /\ TicketsInv /\ BeliefInv /\ ToldOnce /\ DropsPaid
  BY DEF JournalInv, TellInv
<1>2. /\ pc = "reconciled" /\ UNCHANGED <<disk, world, kills, held>>
      /\ DecisionLine \in Line /\ \A t \in Ticket : ~Ends(DecisionLine, t)
  BY <1>1, LineTypes DEF LogDecision, Ends, DecisionLine
<1>3. CASE CutShort(DecisionLine, mem)  BY <1>1, <1>2, <1>3, CutTells
<1>4. CASE Appends(DecisionLine) /\ pc' = "decided" /\ UNCHANGED <<mem, pending, beliefs>>
  <2>1. UNCHANGED <<disk, control, kills, held, positions, nextTicket, status>>
    BY <1>2 DEF world
  <2>2. Quietly  BY <1>1, <1>2, <1>4, <2>1, QuietAppend
  <2>3. TicketsInv'  BY <1>1, <1>2, <1>4, <2>1 DEF TicketsInv, OpenVolume
  <2>4. BeliefInv'
    BY <1>1, <1>2, <1>4, <2>1, <2>2
    DEF Quietly, BeliefInv, Cycling, Recovering, Open, Exceeded, OpenVolume
  <2>5. ToldOnce'
    <3>1. \A t \in Ticket : beliefs'[t] >= beliefs[t]  BY <1>1, <1>4 DEF TypeOK
    <3>2. \A t \in Ticket : t \in Due' => t \in Due  BY <1>2, <1>4, <2>1 DEF Due, Resting
    <3> QED BY <1>1, <2>2, <3>1, <3>2, ToldStill DEF Quietly
  <2>6. DropsPaid'
    <3>1. Silent' = Silent  BY <2>1, <2>2 DEF Quietly, Silent
    <3>2. AtRisk' => AtRisk
      BY <1>2, <1>4, <2>1, <2>2
      DEF Quietly, AtRisk, Resting, Recovering, Cycling, Low, Open, Exceeded, OpenVolume
    <3> QED BY <1>1, <2>2, <3>1, <3>2, PaidStill, CountsTyped DEF Quietly
  <2> QED BY <2>3, <2>4, <2>5, <2>6 DEF TellInv
<1> QED BY <1>3, <1>4 DEF LogDecision, Goto

\* A command, or its withdrawal, goes into the control file.
LEMMA PublishTells ==
    JournalInv /\ JournalInv' /\ TellInv /\ (PublishNone \/ Publish) => TellInv'
<1> SUFFICES ASSUME JournalInv, JournalInv', TellInv, PublishNone \/ Publish
             PROVE  TellInv'
  OBVIOUS
<1>1. TypeOK /\ TypeOK' /\ TicketsInv /\ BeliefInv /\ ToldOnce /\ DropsPaid
  BY DEF JournalInv, TellInv
<1>2. /\ pc = "decided" /\ pc' \in {"save", "published"}
      /\ UNCHANGED <<journals, disk, mem, pending, positions, nextTicket, status, history>>
  BY DEF PublishNone, Publish, Goto
<1>3. UNCHANGED <<kills, held, beliefs>>  BY <1>2 DEF history
<1>4. Quietly  BY <1>1, <1>2, <1>3, QuietUntouched
<1>5. pc' = "save" => control' = NoOrder  BY <1>2 DEF PublishNone, Publish, Goto
<1>6. pc' = "published" =>
        /\ control'.event = "OPEN" => mem.ticket = NoTicket
        /\ control'.ticket = mem.ticket
        /\ control'.event = "REDUCE" => control'.volume < mem.volume
  <2>1. SUFFICES ASSUME pc' = "published"
                 PROVE  /\ control'.event = "OPEN" => mem.ticket = NoTicket
                        /\ control'.ticket = mem.ticket
                        /\ control'.event = "REDUCE" => control'.volume < mem.volume
    OBVIOUS
  <2>2. control' \in Orders(mem)  BY <2>1 DEF PublishNone, Publish, Goto
  <2>3. mem.volume \in Nat  BY <1>1, NumberTypes
  <2> QED BY <2>2, <2>3 DEF Orders
<1>7. TicketsInv'
  <2>1. control'.ticket \in {NoTicket, mem.ticket}
    BY <1>2, <1>5, <1>6 DEF NoOrder
  <2>2. NoTicket < nextTicket  BY <1>1, NumberTypes DEF NoTicket
  <2> QED BY <1>1, <1>2, <2>1, <2>2 DEF TicketsInv, OpenVolume
<1>8. BeliefInv'
  <2>1. pc' = "save" => control'.event = "NONE"  BY <1>5 DEF NoOrder
  <2>2. ~Exceeded(mem)'  BY <1>1, <1>2 DEF BeliefInv, Exceeded, OpenVolume
  <2> QED BY <1>1, <1>2, <1>4, <1>6, <2>1, <2>2 DEF Quietly, BeliefInv, Cycling, Recovering, Open
<1>9. ToldOnce'
  <2>1. \A t \in Ticket : beliefs'[t] >= beliefs[t]  BY <1>1, <1>3 DEF TypeOK
  <2>2. \A t \in Ticket : t \in Due' => t \in Due  BY <1>2 DEF Due, Resting
  <2> QED BY <1>1, <1>4, <2>1, <2>2, ToldStill DEF Quietly
<1>10. DropsPaid'
  <2>1. Silent' = Silent  BY <1>2, <1>3, <1>4 DEF Quietly, Silent
  <2>2. AtRisk' => AtRisk
    BY <1>2, <1>4
    DEF Quietly, AtRisk, Resting, Recovering, Cycling, Low, Open, Exceeded, OpenVolume
  <2> QED BY <1>1, <1>4, <2>1, <2>2, PaidStill, CountsTyped DEF Quietly
<1> QED BY <1>7, <1>8, <1>9, <1>10 DEF TellInv

\* A CLOSE is logged when it is published, which tells of the end already.
LEMMA LogIntentTells == JournalInv /\ JournalInv' /\ TellInv /\ LogIntent => TellInv'
<1> SUFFICES ASSUME JournalInv, JournalInv', TellInv, LogIntent
             PROVE  TellInv'
  OBVIOUS
<1> DEFINE line == [event |-> control.event,
                    ticket |-> IF control.event = "OPEN" THEN NoTicket ELSE control.ticket]
<1>1. TypeOK /\ TypeOK' /\ TicketsInv /\ BeliefInv /\ ToldOnce /\ DropsPaid
  BY DEF JournalInv, TellInv
<1>2. /\ pc = "published" /\ UNCHANGED <<disk, world, kills, held>> /\ line \in Line
  BY <1>1, LineTypes DEF LogIntent
<1>3. /\ line.event = control.event /\ line.event # "EXTERNAL"
      /\ control.event = "CLOSE" => line.ticket = mem.ticket
  <2>1. control.event \in IntentEvent \cup {"NONE"}  BY <1>1 DEF TypeOK, Order
  <2> QED BY <1>1, <1>2, <2>1 DEF IntentEvent, BeliefInv
<1>4. control.event # "CLOSE" => \A t \in Ticket : ~Ends(line, t)  BY <1>3 DEF Ends
<1>5. CASE CutShort(line, mem)  BY <1>1, <1>2, <1>3, <1>4, <1>5, CutTells
<1>6. CASE Appends(line) /\ pc' = "waiting" /\ UNCHANGED <<mem, beliefs>>
  <2>1. UNCHANGED <<disk, control, kills, held, positions, nextTicket, status>>
    BY <1>2 DEF world
  <2>2. /\ Ended' = Ended \cup {t \in Ticket : Ends(line, t)}
        /\ Faults' = Faults /\ Excuses' = Excuses
        /\ text["trade"].broken => text'["trade"].broken
        /\ Cracked' <=> Cracked
        /\ ExternalLines' = ExternalLines
        /\ Known' \subseteq logged' \cup cut'
    BY <1>1, <1>2, <1>3, <1>6, <2>1, Appending DEF BeliefInv
  <2>3. TicketsInv'  BY <1>1, <1>2, <1>6, <2>1 DEF TicketsInv, OpenVolume
  <2>4. Open(disk)' => Open(disk)  BY <2>1, <2>2 DEF Open
  <2>5. BeliefInv'
    <3>1. control.event = "CLOSE" => ~Open(mem)'
      <4>1. mem.ticket \in Ticket \cup {NoTicket}  BY <1>1, NumberTypes
      <4> QED BY <1>3, <1>6, <2>2, <4>1 DEF Open, Ends
    <3> QED BY <1>1, <1>2, <1>6, <2>1, <2>2, <2>4, <3>1 DEF BeliefInv, Cycling, Recovering
  <2>6. ToldOnce'
    <3>1. \A t \in Ticket : beliefs'[t] >= beliefs[t]  BY <1>1, <1>6 DEF TypeOK
    <3>2. \A t \in Ticket : t \in Due' => t \in Due  BY <1>2, <1>6, <2>1 DEF Due, Resting
    <3> QED BY <1>1, <2>2, <3>1, <3>2, ToldStill
  <2>7. DropsPaid'
    <3>1. Silent' \subseteq Silent  BY <2>1, <2>2 DEF Silent
    <3>2. AtRisk' => AtRisk
      BY <1>2, <1>6, <2>1, <2>2, <2>4
      DEF AtRisk, Resting, Recovering, Cycling, Low, Exceeded, OpenVolume
    <3> QED BY <1>1, <2>2, <3>1, <3>2, PaidStill, CountsTyped
  <2> QED BY <2>3, <2>5, <2>6, <2>7 DEF TellInv
<1> QED BY <1>5, <1>6 DEF LogIntent, Goto

\* What an ack makes of the belief: an OPEN gives it a ticket when it had none,
\* a REDUCE of less than all leaves it its ticket.
LEMMA AckFacts ==
    ASSUME TypeOK, BeliefInv, pc = "waiting", NEW b, b = Confirmed(mem, control)
    PROVE  /\ b \in Belief /\ b.command = control.id
           /\ b.ticket \in {mem.ticket, NoTicket, control.ticket}
           /\ b.ticket \notin {mem.ticket, NoTicket} => mem.ticket = NoTicket
           /\ Open(mem) => b.ticket = mem.ticket /\ b.volume <= mem.volume
<1>1. /\ mem \in Belief /\ control \in Order
      /\ control.event \in IntentEvent \cup {"NONE"}
      /\ mem.volume \in Nat /\ control.volume \in Nat
  BY NumberTypes DEF TypeOK, Order
<1>2. /\ control.event = "OPEN" => mem.ticket = NoTicket
      /\ control.event = "REDUCE" => control.volume < mem.volume
      /\ control.event = "CLOSE" => ~Open(mem)
  BY DEF BeliefInv
<1>3. b \in Belief  BY <1>1, BeliefTypes
<1>4. CASE control.ack # "SUCCESS" \/ control.event \in {"MODIFY", "NONE"}
  <2>1. b = [mem EXCEPT !.command = control.id]
    BY <1>4 DEF Confirmed
  <2> QED BY <1>1, <1>3, <2>1 DEF Belief
<1>5. CASE control.ack = "SUCCESS" /\ control.event = "OPEN"
  <2>1. b = [mem EXCEPT !.command = control.id, !.ticket = control.ticket, !.volume = control.volume]
    BY <1>1, <1>5 DEF Confirmed, Belief
  <2> QED BY <1>1, <1>2, <1>3, <1>5, <2>1 DEF Belief, Open
<1>6. CASE control.ack = "SUCCESS" /\ control.event \in {"CLOSE", "REDUCE"}
  <2>1. CASE control.volume < mem.volume
    <3>1. b = [mem EXCEPT !.command = control.id, !.volume = mem.volume - control.volume]
      BY <1>1, <1>6, <2>1 DEF Confirmed, Belief
    <3> QED BY <1>1, <1>3, <3>1 DEF Belief
  <2>2. CASE ~(control.volume < mem.volume)
    <3>1. b = [mem EXCEPT !.command = control.id, !.ticket = NoTicket, !.volume = 0]
      BY <1>1, <1>6, <2>2 DEF Confirmed, Belief
    <3> QED BY <1>1, <1>2, <1>3, <1>6, <2>2, <3>1 DEF Belief
  <2> QED BY <2>1, <2>2
<1> QED BY <1>1, <1>4, <1>5, <1>6 DEF IntentEvent

\* An ack is applied to the belief.
LEMMA AckArrivesTells == JournalInv /\ JournalInv' /\ TellInv /\ AckArrives => TellInv'
<1> SUFFICES ASSUME JournalInv, JournalInv', TellInv, AckArrives
             PROVE  TellInv'
  OBVIOUS
<1>1. TypeOK /\ TypeOK' /\ TicketsInv /\ BeliefInv /\ ToldOnce /\ DropsPaid
  BY DEF JournalInv, TellInv
<1>2. /\ pc = "waiting" /\ pc' = "settle" /\ Believes(Confirmed(mem, control))
      /\ UNCHANGED <<journals, disk, pending, world, kills, held>>
  BY DEF AckArrives, Goto
<1>3. UNCHANGED <<disk, control, kills, held, positions, nextTicket, status>>
  BY <1>2 DEF world
<1>4. Quietly  BY <1>1, <1>2, <1>3, QuietUntouched
<1>5. /\ mem'.command = control.id
      /\ mem'.ticket \in {mem.ticket, NoTicket, control.ticket}
      /\ mem'.ticket \notin {mem.ticket, NoTicket} => mem.ticket = NoTicket
      /\ Open(mem) => mem'.ticket = mem.ticket /\ mem'.volume <= mem.volume
      /\ beliefs' = IF mem'.ticket \notin {NoTicket, mem.ticket}
                      THEN [beliefs EXCEPT ![mem'.ticket] = @ + 1] ELSE beliefs
  BY <1>1, <1>2, AckFacts DEF Believes
<1>6. Open(disk) => Open(mem) /\ mem.ticket = disk.ticket
  BY <1>1, <1>2 DEF BeliefInv, Cycling, Recovering, Open
<1>7. TicketsInv'
  <2>1. NoTicket < nextTicket  BY <1>1, NumberTypes DEF NoTicket
  <2> QED BY <1>1, <1>2, <1>3, <1>5, <2>1 DEF TicketsInv, OpenVolume
<1>8. BeliefInv'
  <2>1. Open(disk)' => mem'.ticket = disk'.ticket
    BY <1>3, <1>4, <1>5, <1>6 DEF Quietly, Open
  <2>2. control'.event \in {"OPEN", "CLOSE"} => ~Open(disk)'
    BY <1>1, <1>2, <1>3, <1>4, <1>6 DEF Quietly, Open, BeliefInv
  <2> QED BY <1>2, <1>3, <1>4, <1>5, <2>1, <2>2 DEF Quietly, BeliefInv, Recovering
<1>9. ToldOnce'
  <2>1. ASSUME NEW t \in Ticket
        PROVE  /\ beliefs'[t] >= beliefs[t]
               /\ t \in Due' => t \in Due \/ beliefs'[t] >= beliefs[t] + 1
    <3>1. beliefs \in [Ticket -> Nat]  BY <1>1 DEF TypeOK
    <3>2. t \in Due' => t = mem'.ticket /\ t # NoTicket
      BY <1>2 DEF Due, Resting, Ticket, NoTicket
    <3>3. t = mem.ticket => t \in Due  BY DEF Due
    <3> QED BY <1>5, <3>1, <3>2, <3>3
  <2> QED BY <1>1, <1>4, <2>1, ToldStill DEF Quietly
<1>10. DropsPaid'
  <2>1. Silent' = Silent  BY <1>3, <1>4 DEF Quietly, Silent
  <2>2. mem.volume \in Nat /\ mem'.volume \in Nat /\ disk.volume \in Nat /\ control.volume \in Nat
    <3>1. mem' \in Belief  BY <1>1 DEF TypeOK
    <3>2. mem'.volume \in Nat  BY <3>1, JournalAssumption DEF Belief, Volume
    <3> QED BY <1>1, <3>2, NumberTypes
  <2>3. Low' => Low
    <3>1. Exceeded(disk)' <=> Exceeded(disk)  BY <1>3 DEF Exceeded, OpenVolume
    <3>2. Open(disk)' <=> Open(disk)  BY <1>3, <1>4 DEF Quietly, Open
    <3>3. Open(disk) => mem'.ticket = mem.ticket /\ mem'.volume <= mem.volume
      BY <1>5, <1>6
    <3> QED BY <1>3, <2>2, <3>1, <3>2, <3>3 DEF Low
  <2>4. Drops(disk)' => Low
    <3>1. Drops(disk)' => /\ Open(disk)
                          /\ control.event \in {"OPEN", "CLOSE", "REDUCE"}
                          /\ control.event = "REDUCE" => control.volume >= disk.volume
      BY <1>3, <1>4 DEF Quietly, Drops, Open
    <3>2. Open(disk) => control.event \notin {"OPEN", "CLOSE"}
      BY <1>1, <1>2, <1>6 DEF BeliefInv, Open
    <3>3. control.event = "REDUCE" => control.volume < mem.volume
      BY <1>1, <1>2 DEF BeliefInv
    <3> QED BY <1>6, <2>2, <3>1, <3>2, <3>3 DEF Low
  <2>5. AtRisk' => AtRisk
    BY <1>2, <1>4, <2>3, <2>4 DEF Quietly, AtRisk, Resting, Recovering, Cycling
  <2> QED BY <1>1, <1>4, <2>1, <2>5, PaidStill, CountsTyped DEF Quietly
<1> QED BY <1>7, <1>8, <1>9, <1>10 DEF TellInv

\* The wait is over: the command is withdrawn, an error is logged.
LEMMA AckTimesOutTells == JournalInv /\ JournalInv' /\ TellInv /\ AckTimesOut => TellInv'
<1> SUFFICES ASSUME JournalInv, JournalInv', TellInv, AckTimesOut
             PROVE  TellInv'
  OBVIOUS
<1>1. TypeOK /\ TypeOK' /\ TicketsInv /\ BeliefInv /\ ToldOnce /\ DropsPaid
  BY DEF JournalInv, TellInv
<1>2. /\ pc = "waiting"
      /\ UNCHANGED <<disk, nextCommand, positions, nextTicket, status, kills, held>>
      /\ ErrorLine \in Line /\ \A t \in Ticket : ~Ends(ErrorLine, t)
  BY <1>1, LineTypes DEF AckTimesOut, Ends, ErrorLine
<1>3. CASE CutShort(ErrorLine, mem) /\ UNCHANGED control
  <2>1. UNCHANGED <<disk, world, kills, held>>  BY <1>2, <1>3 DEF world
  <2> QED BY <1>1, <1>2, <1>3, <2>1, CutTells
<1>4. CASE /\ Appends(ErrorLine)
           /\ mem' = Timeout(mem, control) /\ control' = NoOrder
           /\ pc' = "settle"
           /\ UNCHANGED <<pending, beliefs>>
  <2>1. Quietly  BY <1>1, <1>2, <1>4, QuietAppend
  <2>2. /\ mem'.ticket = mem.ticket /\ mem'.volume = mem.volume
        /\ control'.event = "NONE" /\ control'.ticket = NoTicket
    BY <1>1, <1>4 DEF Timeout, TypeOK, Belief, NoOrder
  <2>3. TicketsInv'
    <3>1. NoTicket < nextTicket  BY <1>1, NumberTypes DEF NoTicket
    <3> QED BY <1>1, <1>2, <1>4, <2>2, <3>1 DEF TicketsInv, OpenVolume
  <2>4. BeliefInv'
    BY <1>1, <1>2, <1>4, <2>1, <2>2 DEF Quietly, BeliefInv, Cycling, Recovering, Open
  <2>5. ToldOnce'
    <3>1. \A t \in Ticket : beliefs'[t] >= beliefs[t]  BY <1>1, <1>4 DEF TypeOK
    <3>2. \A t \in Ticket : t \in Due' => t \in Due
      BY <1>2, <1>4, <2>2 DEF Due, Resting
    <3> QED BY <1>1, <2>1, <3>1, <3>2, ToldStill DEF Quietly
  <2>6. DropsPaid'
    <3>1. Silent' = Silent  BY <1>2, <2>1 DEF Quietly, Silent
    <3>2. ~Drops(disk)'  BY <2>2 DEF Drops
    <3>3. Low' => Low
      BY <1>2, <2>1, <2>2 DEF Quietly, Low, Open, Exceeded, OpenVolume
    <3>4. AtRisk' => AtRisk
      BY <1>2, <1>4, <2>1, <3>2, <3>3 DEF Quietly, AtRisk, Resting, Recovering, Cycling
    <3> QED BY <1>1, <2>1, <3>1, <3>4, PaidStill, CountsTyped DEF Quietly
  <2> QED BY <2>3, <2>4, <2>5, <2>6 DEF TellInv
<1> QED BY <1>3, <1>4 DEF AckTimesOut, Goto

\* The verdict is written behind the intent, or the journal does not parse.
LEMMA SettleTells ==
    JournalInv /\ JournalInv' /\ TellInv /\ (Settle \/ SettleRaises) => TellInv'
<1> SUFFICES ASSUME JournalInv, JournalInv', TellInv, Settle \/ SettleRaises
             PROVE  TellInv'
  OBVIOUS
<1>1. TypeOK /\ TypeOK' /\ TicketsInv /\ BeliefInv /\ ToldOnce /\ DropsPaid
  BY DEF JournalInv, TellInv
<1>2. /\ pc = "settle"
      /\ UNCHANGED <<said, next, logged, cut, disk, mem, positions, nextTicket, status, kills, beliefs, held>>
  BY DEF Settle, SettleRaises, journals, world, history
<1>3. /\ Ended' = Ended /\ ExternalLines' = ExternalLines
      /\ Faults' = Faults /\ Excuses' = Excuses
      /\ Known' = Known
  BY <1>2, NothingSaid
<1>4. /\ Open(disk)' <=> Open(disk)
      /\ Open(mem)' <=> Open(mem)
      /\ Silent' = Silent
  BY <1>2, <1>3 DEF Open, Silent
<1>5. \A t \in Ticket : beliefs'[t] >= beliefs[t]  BY <1>1, <1>2 DEF TypeOK
<1>6. CASE Settle
  <2>1. /\ ~text["trade"].broken /\ pc' = "save" /\ control' = NoOrder
        /\ text' = [text EXCEPT !["trade"] = Rewritten(text["trade"], text["trade"].lines)]
    BY <1>6 DEF Settle, Goto
  <2>2. ~Cracked' /\ ~text'["trade"].broken
    <3>1. /\ text["trade"] \in Text /\ "trade" \in Journal
          /\ text["trade"].lines \in SUBSET Entry
      BY <1>1 DEF TypeOK, Journal, Text
    <3>2. text'["trade"] = Rewritten(text["trade"], text["trade"].lines)
      BY <1>1, <2>1, <3>1 DEF TypeOK
    <3> QED BY <2>1, <3>1, <3>2, RewriteFacts DEF Cracked
  <2>3. control'.event = "NONE" /\ control'.ticket = NoTicket  BY <2>1 DEF NoOrder
  <2>4. TicketsInv'
    <3>1. NoTicket < nextTicket  BY <1>1, NumberTypes DEF NoTicket
    <3> QED BY <1>1, <1>2, <2>1, <2>3, <3>1 DEF TicketsInv, OpenVolume
  <2>5. BeliefInv'
    BY <1>1, <1>2, <1>3, <1>4, <2>1, <2>2, <2>3 DEF BeliefInv, Cycling, Recovering
  <2>6. ToldOnce'
    <3>1. \A t \in Ticket : t \in Due' => t \in Due  BY <1>2, <2>1 DEF Due, Resting
    <3> QED BY <1>1, <1>3, <1>5, <2>1, <3>1, ToldStill
  <2>7. DropsPaid'
    <3>1. ~AtRisk'  BY <2>1, <2>2 DEF AtRisk, Resting, Recovering
    <3> QED BY <1>1, <1>3, <1>4, <3>1, PaidNow
  <2> QED BY <2>4, <2>5, <2>6, <2>7 DEF TellInv
<1>7. CASE SettleRaises
  <2>1. /\ text["trade"].broken /\ pc' = "failed"
        /\ control' = control /\ text' = text
    BY <1>7 DEF SettleRaises, Goto, journals, world
  <2>2. Cracked /\ Cracked'  BY <2>1 DEF Cracked
  <2>3. TicketsInv'  BY <1>1, <1>2, <2>1 DEF TicketsInv, OpenVolume
  <2>4. BeliefInv'
    BY <1>1, <1>2, <1>3, <1>4, <2>1 DEF BeliefInv, Cycling, Recovering
  <2>5. ToldOnce'  BY <2>1 DEF ToldOnce
  <2>6. DropsPaid'
    <3>1. Drops(disk)' <=> Drops(disk)  BY <1>2, <1>4, <2>1 DEF Drops
    <3>2. ~Drops(mem)'
      BY <1>1, <1>2, <2>1 DEF Drops, BeliefInv
    <3>3. Low' => Low  BY <1>2, <1>4 DEF Low, Exceeded, OpenVolume
    <3>4. AtRisk' => AtRisk
      BY <1>2, <2>1, <2>2, <3>1, <3>2, <3>3 DEF AtRisk, Resting, Recovering, Cycling
    <3> QED BY <1>1, <1>3, <1>4, <3>4, PaidStill, CountsTyped
  <2> QED BY <2>3, <2>4, <2>5, <2>6 DEF TellInv
<1> QED BY <1>6, <1>7

\* The belief is saved: here a ticket leaves the saved state.
LEMMA SaveStateTells == JournalInv /\ JournalInv' /\ TellInv /\ SaveState => TellInv'
<1> SUFFICES ASSUME JournalInv, JournalInv', TellInv, SaveState
             PROVE  TellInv'
  OBVIOUS
<1>1. TypeOK /\ TypeOK' /\ TicketsInv /\ BeliefInv /\ ToldOnce /\ DropsPaid
  BY DEF JournalInv, TellInv
<1>2. /\ pc \in {"save", "recoverSave"} /\ pc' = "idle" /\ disk' = mem
      /\ UNCHANGED <<journals, mem, pending, world, kills, beliefs>>
      /\ held' = IF mem.ticket = NoTicket THEN held ELSE held \cup {mem.ticket}
  BY DEF SaveState, Goto
<1>3. UNCHANGED <<mem, control, kills, beliefs, positions, nextTicket, status>>
  BY <1>2 DEF world
<1>4. Quietly  BY <1>1, <1>2, <1>3, QuietUntouched
<1>5. TicketsInv'  BY <1>1, <1>2, <1>3 DEF TicketsInv, OpenVolume
<1>6. BeliefInv'
  BY <1>2, <1>3, <1>4 DEF Quietly, BeliefInv, Cycling, Recovering
<1>7. ToldOnce'
  <2>1. \A t \in Ticket : beliefs'[t] >= beliefs[t]  BY <1>1, <1>3 DEF TypeOK
  <2>2. \A t \in Ticket : t \in Due' => t \in Due  BY <1>2, <1>3 DEF Due
  <2> QED BY <1>1, <1>4, <2>1, <2>2, ToldStill DEF Quietly
<1>8. DropsPaid'
  <2>1. ~Drops(mem)
    BY <1>1, <1>2 DEF Drops, BeliefInv, Recovering
  <2>2. Cracked => ~Exceeded(mem)  BY <1>1, <1>2 DEF BeliefInv
  <2>3. ~AtRisk'
    <3>1. ~Drops(disk)' /\ ~Drops(mem)'
      BY <1>2, <1>3, <1>4, <2>1 DEF Quietly, Drops, Open
    <3>2. ~(Cracked' /\ Low')
      <4>1. ~(mem'.volume > disk'.volume)  BY <1>1, <1>2, <1>3, NumberTypes
      <4>2. Exceeded(disk)' => Exceeded(mem)  BY <1>2, <1>3 DEF Exceeded, OpenVolume
      <4> QED BY <1>4, <2>2, <4>1, <4>2 DEF Quietly, Low
    <3> QED BY <1>2, <3>1, <3>2 DEF AtRisk, Recovering
  <2>4. ASSUME NEW t \in Silent', t \notin Silent
        PROVE  t = disk.ticket /\ Open(disk) /\ t # mem.ticket
    <3>1. t \in held' /\ t # mem.ticket /\ t \notin Ended /\ t \in Ticket
      BY <1>1, <1>2, <1>4, <2>4 DEF Quietly, Silent, TypeOK
    <3>2. t \in held  BY <1>2, <3>1
    <3>3. t = disk.ticket  BY <2>4, <3>1, <3>2 DEF Silent
    <3> QED BY <3>1, <3>3 DEF Open, Ticket, NoTicket
  <2>5. CASE pc = "save"
    <3>1. Open(disk) => mem.ticket = disk.ticket
      BY <1>1, <2>5 DEF BeliefInv, Cycling, Recovering
    <3>2. Silent' \subseteq Silent  BY <2>4, <3>1
    <3> QED BY <1>1, <1>4, <2>3, <3>2, PaidNow DEF Quietly
  <2>6. CASE pc = "recoverSave"
    <3>1. Silent' \subseteq Silent \cup {disk.ticket}  BY <2>4
    <3>2. Silent' \subseteq Silent \/ AtRisk  BY <2>4, <2>6 DEF AtRisk, Recovering
    <3> QED BY <1>1, <1>4, <2>3, <3>1, <3>2, PaidNow DEF Quietly
  <2> QED BY <1>2, <2>5, <2>6
<1> QED BY <1>5, <1>6, <1>7, <1>8 DEF TellInv

\* The error of a failed cycle is logged.
LEMMA LogErrorTells == JournalInv /\ JournalInv' /\ TellInv /\ LogError => TellInv'
<1> SUFFICES ASSUME JournalInv, JournalInv', TellInv, LogError
             PROVE  TellInv'
  OBVIOUS
<1>1. TypeOK /\ TypeOK' /\ TicketsInv /\ BeliefInv /\ ToldOnce /\ DropsPaid
  BY DEF JournalInv, TellInv
<1>2. /\ pc = "failed" /\ UNCHANGED <<disk, world, kills, held>>
      /\ ErrorLine \in Line /\ \A t \in Ticket : ~Ends(ErrorLine, t)
  BY <1>1, LineTypes DEF LogError, Ends, ErrorLine
<1>3. CASE CutShort(ErrorLine, mem)  BY <1>1, <1>2, <1>3, CutTells
<1>4. CASE Appends(ErrorLine) /\ pc' = "idle" /\ UNCHANGED <<mem, pending, beliefs>>
  <2>1. UNCHANGED <<disk, control, kills, held, positions, nextTicket, status>>
    BY <1>2 DEF world
  <2>2. Quietly  BY <1>1, <1>2, <1>4, <2>1, QuietAppend
  <2>3. TicketsInv'  BY <1>1, <1>2, <1>4, <2>1 DEF TicketsInv, OpenVolume
  <2>4. BeliefInv'
    BY <1>1, <1>2, <1>4, <2>1, <2>2 DEF Quietly, BeliefInv, Cycling, Recovering, Open
  <2>5. ToldOnce'
    <3>1. \A t \in Ticket : beliefs'[t] >= beliefs[t]  BY <1>1, <1>4 DEF TypeOK
    <3>2. \A t \in Ticket : t \in Due' => t \in Due  BY <1>2, <1>4, <2>1 DEF Due, Resting
    <3> QED BY <1>1, <2>2, <3>1, <3>2, ToldStill DEF Quietly
  <2>6. DropsPaid'
    <3>1. Silent' = Silent  BY <2>1, <2>2 DEF Quietly, Silent
    <3>2. /\ Drops(disk)' <=> Drops(disk)
          /\ Drops(mem)' <=> Drops(mem)
          /\ Low' <=> Low
      BY <1>4, <2>1, <2>2 DEF Quietly, Drops, Low, Open, Exceeded, OpenVolume
    <3>3. AtRisk' => AtRisk
      BY <1>2, <1>4, <2>2, <3>2 DEF Quietly, AtRisk, Resting, Recovering, Cycling
    <3> QED BY <1>1, <2>2, <3>1, <3>3, PaidStill, CountsTyped DEF Quietly
  <2> QED BY <2>3, <2>4, <2>5, <2>6 DEF TellInv
<1> QED BY <1>3, <1>4 DEF LogError, Goto

\* Lines move to the history file.
LEMMA RotateTells == JournalInv /\ JournalInv' /\ TellInv /\ Rotate => TellInv'
<1> SUFFICES ASSUME JournalInv, JournalInv', TellInv, Rotate
             PROVE  TellInv'
  OBVIOUS
<1>1. TypeOK /\ TypeOK' /\ TicketsInv /\ BeliefInv /\ ToldOnce /\ DropsPaid
  BY DEF JournalInv, TellInv
<1>2. /\ pc = "idle"
      /\ UNCHANGED <<said, next, logged, cut, disk, mem, pc, control, positions, nextTicket,
                     status, kills, beliefs, held>>
  BY DEF Rotate, python, world, history
<1>3. /\ Ended' = Ended /\ ExternalLines' = ExternalLines
      /\ Faults' = Faults /\ Excuses' = Excuses
      /\ Known' = Known
  BY <1>2, NothingSaid
<1>4. /\ text["trade"].broken <=> text'["trade"].broken
      /\ Cracked' => Cracked
  <2>1. PICK j \in Journal, cutoff \in Entry :
             text' = [text EXCEPT ![j] = Rewritten(text[j], text[j].lines \ {e \in text[j].lines : e < cutoff})]
    BY DEF Rotate
  <2>2. "trade" \in Journal /\ text["trade"] \in Text /\ text[j] \in Text
    BY <1>1 DEF TypeOK, Journal
  <2>3. text[j].lines \ {e \in text[j].lines : e < cutoff} \in SUBSET Entry
    BY <2>2 DEF Text
  <2>4. CASE j = "trade"
    <3>1. text'["trade"] = Rewritten(text[j], text[j].lines \ {e \in text[j].lines : e < cutoff})
      BY <1>1, <2>1, <2>2, <2>4 DEF TypeOK
    <3>2. text'["trade"].broken = text["trade"].broken /\ text'["trade"].tail = NoEntry
      BY <2>2, <2>3, <2>4, <3>1, RewriteFacts
    <3> QED BY <3>2 DEF Cracked
  <2>5. CASE j # "trade"
    <3>1. text'["trade"] = text["trade"]  BY <1>1, <2>1, <2>2, <2>5 DEF TypeOK
    <3> QED BY <3>1 DEF Cracked
  <2> QED BY <2>4, <2>5
<1>5. TicketsInv'  BY <1>1, <1>2 DEF TicketsInv, OpenVolume
<1>6. BeliefInv'  BY <1>1, <1>2, <1>3 DEF BeliefInv, Cycling, Recovering, Open
<1>7. ToldOnce'
  <2>1. \A t \in Ticket : beliefs'[t] >= beliefs[t]  BY <1>1, <1>2 DEF TypeOK
  <2>2. Due' = Due  BY <1>2 DEF Due, Resting
  <2> QED BY <1>1, <1>3, <1>4, <2>1, <2>2, ToldStill
<1>8. DropsPaid'
  <2>1. Silent' = Silent  BY <1>2, <1>3 DEF Silent
  <2>2. /\ Drops(disk)' <=> Drops(disk)
        /\ Drops(mem)' <=> Drops(mem)
        /\ Low' <=> Low
    BY <1>2, <1>3 DEF Drops, Low, Open, Exceeded, OpenVolume
  <2>3. AtRisk' => AtRisk
    BY <1>2, <1>4, <2>2 DEF AtRisk, Resting, Recovering, Cycling
  <2> QED BY <1>1, <1>3, <2>1, <2>3, PaidStill, CountsTyped
<1> QED BY <1>5, <1>6, <1>7, <1>8 DEF TellInv

\* A pending command is made into a belief without a line.
LEMMA RecoverTells == JournalInv /\ JournalInv' /\ TellInv /\ Recover => TellInv'
<1> SUFFICES ASSUME JournalInv, JournalInv', TellInv, Recover
             PROVE  TellInv'
  OBVIOUS
<1>1. TypeOK /\ TypeOK' /\ TicketsInv /\ BeliefInv /\ ToldOnce /\ DropsPaid
  BY DEF JournalInv, TellInv
<1>2. /\ pc = "down" /\ pc' = "recoverSync"
      /\ UNCHANGED <<journals, disk, pending, positions, nextTicket, status, kills, held>>
      /\ beliefs' = IF mem'.ticket \notin {NoTicket, disk.ticket}
                      THEN [beliefs EXCEPT ![mem'.ticket] = @ + 1] ELSE beliefs
  BY DEF Recover, Goto
<1>3. Quietly  BY <1>1, <1>2, QuietUntouched
<1>4. disk \in Belief /\ control \in Order /\ disk.volume \in Nat /\ control.volume \in Nat
  BY <1>1, NumberTypes DEF TypeOK
<1>5. /\ \/ control'.event = "NONE" /\ control'.ticket = NoTicket
         \/ control' = control /\ mem' = disk /\ (control.event = "NONE" \/ control.id = disk.command)
      /\ mem'.ticket \in {NoTicket, disk.ticket, control.ticket}
      /\ Open(disk) /\ mem'.ticket # disk.ticket => Drops(disk)
  <2>1. CASE ~(control.event # "NONE" /\ control.id # disk.command)
    <3>1. mem' = disk /\ control' = control  BY <2>1 DEF Recover
    <3> QED BY <2>1, <3>1
  <2>2. CASE control.event # "NONE" /\ control.id # disk.command
    <3>1. control'.event = "NONE" /\ control'.ticket = NoTicket  BY <2>2 DEF Recover, NoOrder
    <3>2. CASE control.ack = "WAITING"
      <4>1. mem' = Timeout(disk, control)  BY <2>2, <3>2 DEF Recover
      <4>2. mem'.ticket = disk.ticket  BY <1>4, <4>1 DEF Timeout, Belief
      <4> QED BY <3>1, <4>2
    <3>3. CASE control.ack # "WAITING"
      <4>1. mem' = Confirmed(disk, control)  BY <2>2, <3>3 DEF Recover
      <4>2. CASE control.ack # "SUCCESS" \/ control.event \notin {"OPEN", "CLOSE", "REDUCE"}
        <5>1. mem' = [disk EXCEPT !.command = control.id]
          BY <4>1, <4>2 DEF Confirmed
        <5> QED BY <1>4, <3>1, <5>1 DEF Belief
      <4>3. CASE control.ack = "SUCCESS" /\ control.event = "OPEN"
        <5>1. mem'.ticket = control.ticket  BY <1>4, <4>1, <4>3 DEF Confirmed, Belief
        <5> QED BY <2>2, <3>1, <4>3, <5>1 DEF Drops
      <4>4. CASE control.ack = "SUCCESS" /\ control.event \in {"CLOSE", "REDUCE"}
        <5>1. CASE control.volume < disk.volume
          <6>1. mem'.ticket = disk.ticket  BY <1>4, <4>1, <4>4, <5>1 DEF Confirmed, Belief
          <6> QED BY <3>1, <6>1
        <5>2. CASE ~(control.volume < disk.volume)
          <6>1. mem'.ticket = NoTicket  BY <1>4, <4>1, <4>4, <5>2 DEF Confirmed, Belief
          <6>2. control.volume >= disk.volume  BY <1>4, <5>2
          <6> QED BY <2>2, <3>1, <4>4, <6>1, <6>2 DEF Drops
        <5> QED BY <5>1, <5>2
      <4> QED BY <4>2, <4>3, <4>4
    <3> QED BY <3>2, <3>3
  <2> QED BY <2>1, <2>2
<1>6. \/ control'.event = "NONE"
      \/ control'.id = mem'.command /\ mem'.command = disk'.command
  BY <1>2, <1>5
<1>7. TicketsInv'
  <2>1. NoTicket < nextTicket  BY <1>1, NumberTypes DEF NoTicket
  <2> QED BY <1>1, <1>2, <1>5, <2>1 DEF TicketsInv, OpenVolume
<1>8. BeliefInv'
  BY <1>2, <1>3, <1>6 DEF Quietly, BeliefInv, Cycling, Recovering
<1>9. ToldOnce'
  <2>1. ASSUME NEW t \in Ticket
        PROVE  /\ beliefs'[t] >= beliefs[t]
               /\ t \in Due' => t \in Due \/ beliefs'[t] >= beliefs[t] + 1
    <3>1. beliefs \in [Ticket -> Nat]  BY <1>1 DEF TypeOK
    <3>2. t \in Due' => t = mem'.ticket /\ t # NoTicket
      BY <1>2 DEF Due, Resting, Ticket, NoTicket
    <3>3. t = disk.ticket => t \in Due  BY <1>2 DEF Due, Resting
    <3> QED BY <1>2, <3>1, <3>2, <3>3
  <2> QED BY <1>1, <1>3, <2>1, ToldStill DEF Quietly
<1>10. DropsPaid'
  <2>1. Silent' = Silent  BY <1>2, <1>3 DEF Quietly, Silent
  <2>2. AtRisk' => Drops(disk)
    BY <1>2, <1>3, <1>5 DEF Quietly, AtRisk, Resting, Recovering, Cycling, Open
  <2>3. AtRisk' => AtRisk  BY <1>2, <2>2 DEF AtRisk, Resting
  <2> QED BY <1>1, <1>3, <2>1, <2>3, PaidStill, CountsTyped DEF Quietly
<1> QED BY <1>7, <1>8, <1>9, <1>10 DEF TellInv

\* What is in memory is saved and forgotten.
LEMMA ShutdownTells == JournalInv /\ JournalInv' /\ TellInv /\ Shutdown => TellInv'
<1> SUFFICES ASSUME JournalInv, JournalInv', TellInv, Shutdown
             PROVE  TellInv'
  OBVIOUS
<1>1. TypeOK /\ TypeOK' /\ TicketsInv /\ BeliefInv /\ ToldOnce /\ DropsPaid
  BY DEF JournalInv, TellInv
<1>2. /\ pc = "idle" /\ pc' = "down" /\ disk' = mem /\ mem'.ticket = NoTicket
      /\ UNCHANGED <<journals, pending, world, kills, beliefs>>
      /\ held' = IF mem.ticket = NoTicket THEN held ELSE held \cup {mem.ticket}
  BY DEF Shutdown, Goto, Unknown
<1>3. UNCHANGED <<control, kills, beliefs, positions, nextTicket, status>>
  BY <1>2 DEF world
<1>4. Quietly  BY <1>1, <1>2, <1>3, QuietUntouched
<1>5. TicketsInv'
  <2>1. NoTicket < nextTicket  BY <1>1, NumberTypes DEF NoTicket
  <2> QED BY <1>1, <1>2, <1>3, <2>1 DEF TicketsInv, OpenVolume
<1>6. BeliefInv'
  BY <1>2, <1>4 DEF Quietly, BeliefInv, Cycling, Recovering
<1>7. ToldOnce'
  <2>1. \A t \in Ticket : beliefs'[t] >= beliefs[t]  BY <1>1, <1>3 DEF TypeOK
  <2>2. \A t \in Ticket : t \in Due' => t \in Due
    BY <1>2 DEF Due, Ticket, NoTicket
  <2> QED BY <1>1, <1>4, <2>1, <2>2, ToldStill DEF Quietly
<1>8. DropsPaid'
  <2>1. Silent' \subseteq Silent
    <3>1. Open(disk) => mem.ticket = disk.ticket
      BY <1>1, <1>2 DEF BeliefInv, Cycling, Recovering
    <3>2. ASSUME NEW t \in Silent'  PROVE  t \in Silent
      <4>1. t \in held' /\ t # mem.ticket /\ t \notin Ended /\ t \in Ticket
        BY <1>1, <1>2, <1>4 DEF Quietly, Silent, TypeOK
      <4>2. t \in held  BY <1>2, <4>1
      <4>3. t # disk.ticket  BY <3>1, <4>1 DEF Open, Ticket, NoTicket
      <4> QED BY <4>1, <4>2, <4>3 DEF Silent
    <3> QED BY <3>2
  <2>2. AtRisk' => AtRisk
    BY <1>2, <1>3, <1>4
    DEF Quietly, AtRisk, Resting, Recovering, Cycling, Drops, Open
  <2> QED BY <1>1, <1>4, <2>1, <2>2, PaidStill, CountsTyped DEF Quietly
<1> QED BY <1>5, <1>6, <1>7, <1>8 DEF TellInv

\* A kill is a fault, and pays for the position at risk.
LEMMA KillTells == JournalInv /\ JournalInv' /\ TellInv /\ Kill => TellInv'
<1> SUFFICES ASSUME JournalInv, JournalInv', TellInv, Kill
             PROVE  TellInv'
  OBVIOUS
<1>1. TypeOK /\ TypeOK' /\ TicketsInv /\ BeliefInv /\ ToldOnce /\ DropsPaid
  BY DEF JournalInv, TellInv
<1>2. /\ pc # "down" /\ pc' = "down" /\ mem'.ticket = NoTicket /\ kills' = kills + 1
      /\ UNCHANGED <<text, said, next, cut, logged, disk, control, positions, nextTicket, status,
                     beliefs, held>>
  BY DEF Kill, Goto, Unknown, journals, world
<1>3. Known' = Known  BY <1>2 DEF Known
<1>4. Ended' = Ended /\ ExternalLines' = ExternalLines
  BY <1>2, <1>3 DEF Ended, ExternalLines, Ends
<1>5. Faults' = Faults + 1 /\ Excuses' = Excuses + 1
  <2>1. CutEnds' = CutEnds  BY <1>2 DEF CutEnds, Ends
  <2>2. cut \in SUBSET Entry /\ cut \ CutEnds \in SUBSET Entry  BY <1>1 DEF TypeOK
  <2>3. kills \in Nat /\ Cardinality(cut) \in Nat /\ Cardinality(cut \ CutEnds) \in Nat
    BY <2>2, EntriesFinite, CountsTyped
  <2> QED BY <1>2, <2>1, <2>3 DEF Faults, Excuses
<1>6. TicketsInv'
  <2>1. NoTicket < nextTicket  BY <1>1, NumberTypes DEF NoTicket
  <2> QED BY <1>1, <1>2, <2>1 DEF TicketsInv, OpenVolume
<1>7. BeliefInv'
  BY <1>1, <1>2, <1>3 DEF BeliefInv, Cycling, Recovering
<1>8. ToldOnce'  BY <1>1, <1>2, <1>4, <1>5, ToldFault
<1>9. DropsPaid'
  <2>1. Silent' = Silent  BY <1>2, <1>4 DEF Silent
  <2> QED BY <1>1, <1>5, <2>1, PaidStill
<1> QED BY <1>6, <1>7, <1>8, <1>9 DEF TellInv

-----------------------------------------------------------------------------
(* The invariant, and what it says of the closed positions.                *)

\* Nothing is owed at first.
LEMMA InitTells == JournalInv /\ Init => TellInv
<1> SUFFICES ASSUME JournalInv, Init PROVE TellInv  OBVIOUS
<1>1. /\ Known = {} /\ cut = {} /\ held = {} /\ kills = 0 /\ pc = "down"
      /\ disk.ticket = NoTicket /\ mem.ticket = NoTicket
      /\ status.ticket = NoTicket /\ status.volume = 0 /\ control.ticket = NoTicket
      /\ control.event = "NONE" /\ nextTicket = 1
  BY DEF Init, Known, Unknown, NoStatus, NoOrder
<1>2. TicketsInv
  BY <1>1 DEF Init, TicketsInv, OpenVolume, NoTicket, Ticket
<1>3. BeliefInv  BY <1>1 DEF BeliefInv, Cycling, Recovering
<1>4. Cardinality({}) = 0  BY FS_EmptySet
<1>5. Faults = 0 /\ Excuses = 0
  <2>1. cut \ CutEnds = {}  BY <1>1
  <2> QED BY <1>1, <1>4, <2>1 DEF Faults, Excuses
<1>6. ToldOnce
  <2>1. SUFFICES ASSUME NEW t \in Ticket
                 PROVE  Cardinality(ExternalLines[t]) + (IF t \in Due THEN 1 ELSE 0)
                          <= beliefs[t] + Faults
    BY DEF ToldOnce
  <2>2. ExternalLines[t] = {}  BY <1>1 DEF ExternalLines
  <2>3. t \notin Due  BY <1>1 DEF Due, Ticket, NoTicket
  <2>4. beliefs[t] = 0  BY DEF Init
  <2> QED BY <1>4, <1>5, <2>2, <2>3, <2>4
<1>7. DropsPaid
  <2>1. Silent = {}  BY <1>1 DEF Silent
  <2>2. ~AtRisk  BY <1>1 DEF AtRisk, Drops, Recovering, Cycling
  <2> QED BY <1>4, <1>5, <2>1, <2>2 DEF DropsPaid
<1> QED BY <1>2, <1>3, <1>6, <1>7 DEF TellInv

\* Nothing changes.
LEMMA StutterTells == JournalInv /\ JournalInv' /\ TellInv /\ UNCHANGED vars => TellInv'
<1> SUFFICES ASSUME JournalInv, JournalInv', TellInv, UNCHANGED vars
             PROVE  TellInv'
  OBVIOUS
<1>1. TypeOK /\ TypeOK' /\ TicketsInv /\ BeliefInv /\ ToldOnce /\ DropsPaid
  BY DEF JournalInv, TellInv
<1>2. UNCHANGED <<journals, disk, mem, pc, control, positions, nextTicket, status, kills,
                  beliefs, held>>
  BY DEF vars, python, world, history
<1>3. Quietly  BY <1>1, <1>2, QuietUntouched
<1>4. TicketsInv'  BY <1>1, <1>2 DEF TicketsInv, OpenVolume
<1>5. BeliefInv'
  BY <1>1, <1>2, <1>3
  DEF Quietly, BeliefInv, Cycling, Recovering, Open, Exceeded, OpenVolume
<1>6. ToldOnce'
  <2>1. \A t \in Ticket : beliefs'[t] >= beliefs[t]  BY <1>1, <1>2 DEF TypeOK
  <2>2. Due' = Due  BY <1>2 DEF Due, Resting
  <2> QED BY <1>1, <1>3, <2>1, <2>2, ToldStill DEF Quietly
<1>7. DropsPaid'
  <2>1. Silent' = Silent  BY <1>2, <1>3 DEF Quietly, Silent
  <2>2. AtRisk' => AtRisk
    BY <1>2, <1>3
    DEF Quietly, AtRisk, Resting, Recovering, Cycling, Low, Drops, Open, Exceeded, OpenVolume
  <2> QED BY <1>1, <1>3, <2>1, <2>2, PaidStill, CountsTyped DEF Quietly
<1> QED BY <1>4, <1>5, <1>6, <1>7 DEF TellInv

\* Belief, saved state, command file and journal keep together what TellInv
\* says of them, in every reachable state.
THEOREM JournalTold == Spec => [](JournalInv /\ TellInv)
<1>1. Init => JournalInv /\ TellInv  BY InitInv, InitTells
<1>2. (JournalInv /\ TellInv) /\ [Next]_vars => (JournalInv /\ TellInv)'
  <2>1. SUFFICES ASSUME JournalInv, TellInv, [Next]_vars
                 PROVE  JournalInv' /\ TellInv'
    OBVIOUS
  <2>2. JournalInv'  BY <2>1, JournalNext
  <2>3. CASE UNCHANGED vars  BY <2>1, <2>2, <2>3, StutterTells
  <2>4. CASE Terminal  BY <2>1, <2>2, <2>4, TerminalTells
  <2>5. CASE Sync  BY <2>1, <2>2, <2>5, SyncStepTells
  <2>6. CASE Cycle
    <3>1. CASE BeginCycle \/ CycleLogsError  BY <2>1, <2>2, <3>1, BeginTells
    <3>2. CASE LogDecision  BY <2>1, <2>2, <3>2, LogDecisionTells
    <3>3. CASE PublishNone \/ Publish  BY <2>1, <2>2, <3>3, PublishTells
    <3>4. CASE LogIntent  BY <2>1, <2>2, <3>4, LogIntentTells
    <3>5. CASE AckArrives  BY <2>1, <2>2, <3>5, AckArrivesTells
    <3>6. CASE AckTimesOut  BY <2>1, <2>2, <3>6, AckTimesOutTells
    <3>7. CASE Settle \/ SettleRaises  BY <2>1, <2>2, <3>7, SettleTells
    <3>8. CASE SaveState  BY <2>1, <2>2, <3>8, SaveStateTells
    <3>9. CASE LogError  BY <2>1, <2>2, <3>9, LogErrorTells
    <3> QED BY <2>6, <3>1, <3>2, <3>3, <3>4, <3>5, <3>6, <3>7, <3>8, <3>9 DEF Cycle
  <2>7. CASE Rotate  BY <2>1, <2>2, <2>7, RotateTells
  <2>8. CASE Recover  BY <2>1, <2>2, <2>8, RecoverTells
  <2>9. CASE Shutdown  BY <2>1, <2>2, <2>9, ShutdownTells
  <2>10. CASE Kill  BY <2>1, <2>2, <2>10, KillTells
  <2> QED BY <2>1, <2>3, <2>4, <2>5, <2>6, <2>7, <2>8, <2>9, <2>10 DEF Next
<1> QED BY <1>1, <1>2, PTL DEF Spec

\* The values of a function are no more than its arguments.
LEMMA FewerValues ==
    ASSUME NEW S, IsFiniteSet(S), NEW f \in [S -> Ticket]
    PROVE  LET T == {f[x] : x \in S}
           IN  IsFiniteSet(T) /\ Cardinality(T) <= Cardinality(S)
<1> DEFINE T == {f[x] : x \in S}
<1>1. f \in Surjection(S, T)  BY DEF Surjection
<1> QED BY <1>1, FS_Surjection

\* Of two sets, and of the parts of one.
LEMMA UnionBound ==
    ASSUME NEW S, NEW T, IsFiniteSet(S), IsFiniteSet(T)
    PROVE  /\ IsFiniteSet(S \cup T)
           /\ Cardinality(S \cup T) <= Cardinality(S) + Cardinality(T)
<1>1. /\ IsFiniteSet(S \cup T) /\ IsFiniteSet(S \cap T)
      /\ Cardinality(S \cup T) = Cardinality(S) + Cardinality(T) - Cardinality(S \cap T)
  BY FS_Union, FS_Intersection
<1>2. /\ Cardinality(S) \in Nat /\ Cardinality(T) \in Nat /\ Cardinality(S \cap T) \in Nat
  BY <1>1, FS_CardinalityType
<1> QED BY <1>1, <1>2

\* What can be read was written, and what was written and cannot be read was
\* cut or follows a line that was cut.
LEMMA LostLines ==
    ASSUME JournalInv, TellInv
    PROVE  /\ \A e \in Entry : Present(e) => e \in Known
           /\ \A e \in Known : /\ e \in Entry
                               /\ Present(e) \/ e \in cut \/ \E c \in cut : Follows(c, e)
<1>1. TypeOK /\ EntriesKnown /\ LossBounded /\ Known \subseteq logged \cup cut
  BY DEF JournalInv, TextInv, TellInv, BeliefInv
<1>2. ASSUME NEW e \in Entry, Present(e)  PROVE  e \in Known
  <2>1. JournalOf(said[e]) \in Journal  BY <1>1, JournalType DEF TypeOK
  <2> QED BY <1>1, <1>2, <2>1 DEF Present, EntriesKnown
<1>3. ASSUME NEW e \in Known
      PROVE  e \in Entry /\ (Present(e) \/ e \in cut \/ \E c \in cut : Follows(c, e))
  BY <1>1 DEF TypeOK, LossBounded
<1> QED BY <1>2, <1>3

\* A line has at most one line after it.
LEMMA OneFollower ==
    ASSUME NEW c \in Entry, NEW e \in Entry, NEW f \in Entry, Follows(c, e), Follows(c, f)
    PROVE  e = f
<1>1. /\ c \in Nat /\ e \in Nat /\ f \in Nat /\ c < e /\ c < f
      /\ JournalOf(said[c]) = JournalOf(said[e]) /\ JournalOf(said[c]) = JournalOf(said[f])
      /\ \A g \in (c + 1)..(e - 1) : JournalOf(said[g]) # JournalOf(said[e])
      /\ \A g \in (c + 1)..(f - 1) : JournalOf(said[g]) # JournalOf(said[f])
  BY JournalAssumption DEF Entry, Follows
<1>2. ~(e < f)
  <2>1. e < f => e \in (c + 1)..(f - 1)  BY <1>1
  <2> QED BY <1>1, <2>1
<1>3. ~(f < e)
  <2>1. f < e => f \in (c + 1)..(e - 1)  BY <1>1
  <2> QED BY <1>1, <2>1
<1> QED BY <1>1, <1>2, <1>3

\* A position that the saved state has held and of whose end nothing can be
\* read: no line was written, or it was cut, or the line before it was.
LEMMA UntoldBounded == JournalInv /\ TellInv => Cardinality(Untold) <= 2 * Faults
<1> SUFFICES ASSUME JournalInv, TellInv PROVE Cardinality(Untold) <= 2 * Faults  OBVIOUS
<1>1. TypeOK /\ DropsPaid /\ EntriesKnown
  BY DEF JournalInv, TextInv, TellInv
<1> DEFINE follower == [c \in cut |-> CHOOSE e \in Entry : Follows(c, e)]
           ticketOf == [e \in Entry |-> said[e].ticket]
           endsAt   == {c \in CutEnds : said[c].ticket \in Ticket}
           behind   == {c \in cut : \E e \in Entry : Follows(c, e) /\ said[e].ticket \in Ticket}
           first    == [c \in endsAt |-> said[c].ticket]
           second   == [c \in behind |-> said[follower[c]].ticket]
           A        == {first[c] : c \in endsAt}
           B        == {second[c] : c \in behind}
<1>2. /\ cut \in SUBSET Entry /\ CutEnds \in SUBSET Entry /\ CutEnds \subseteq cut
      /\ endsAt \in SUBSET Entry /\ behind \in SUBSET Entry
      /\ endsAt \subseteq CutEnds /\ behind \subseteq cut
  BY <1>1 DEF TypeOK, CutEnds
<1>3. ASSUME NEW c \in behind
      PROVE  \E e \in Entry : /\ Follows(c, e) /\ follower[c] = e
                              /\ said[e].ticket \in Ticket
  <2>1. PICK e \in Entry : Follows(c, e) /\ said[e].ticket \in Ticket  OBVIOUS
  <2>2. follower[c] \in Entry /\ Follows(c, follower[c])  BY <1>2, <2>1
  <2>3. c \in Entry  BY <1>2
  <2>4. follower[c] = e  BY <2>1, <2>2, <2>3, OneFollower
  <2> QED BY <2>1, <2>4
<1>4. first \in [endsAt -> Ticket] /\ second \in [behind -> Ticket]  BY <1>3
<1>5. Untold \subseteq Silent \cup (A \cup B)
  <2>1. SUFFICES ASSUME NEW t \in Untold, t \notin Silent
                 PROVE  t \in A \cup B
    OBVIOUS
  <2>2. /\ t \in Ticket /\ t \in held /\ t # disk.ticket
        /\ Lines(t, {"CLOSE", "EXTERNAL"}) = {}
    BY <1>1 DEF Untold, TypeOK
  <2>3. t \in Ended  BY <2>1, <2>2 DEF Silent
  <2>4. PICK e \in Known : Ends(said[e], t)  BY <2>3 DEF Ended
  <2>5. e \in Entry /\ (Present(e) \/ e \in cut \/ \E c \in cut : Follows(c, e))
    BY <2>4, LostLines
  <2>6. ~Present(e)  BY <2>2, <2>4, <2>5 DEF Lines, Ends
  <2>7. said[e].ticket = t  BY <2>4 DEF Ends
  <2>8. CASE e \in cut
    <3>1. e \in endsAt  BY <2>2, <2>4, <2>7, <2>8 DEF CutEnds
    <3> QED BY <2>7, <3>1
  <2>9. CASE \E c \in cut : Follows(c, e)
    <3>1. PICK c \in cut : Follows(c, e)  BY <2>9
    <3>2. c \in behind /\ c \in Entry  BY <1>2, <2>2, <2>5, <2>7, <3>1
    <3>3. follower[c] = e
      <4>1. PICK f \in Entry : Follows(c, f) /\ follower[c] = f  BY <1>3, <3>2
      <4> QED BY <2>5, <3>1, <3>2, <4>1, OneFollower
    <3>4. second[c] = t  BY <2>7, <3>2, <3>3
    <3> QED BY <3>2, <3>4
  <2> QED BY <2>5, <2>6, <2>8, <2>9
<1>6. /\ IsFiniteSet(A) /\ Cardinality(A) <= Cardinality(CutEnds)
      /\ IsFiniteSet(B) /\ Cardinality(B) <= Cardinality(cut)
      /\ Cardinality(A) \in Nat /\ Cardinality(B) \in Nat
      /\ Cardinality(CutEnds) \in Nat /\ Cardinality(cut) \in Nat
  <2>1. /\ IsFiniteSet(endsAt) /\ IsFiniteSet(behind) /\ IsFiniteSet(CutEnds) /\ IsFiniteSet(cut)
        /\ Cardinality(endsAt) \in Nat /\ Cardinality(behind) \in Nat
        /\ Cardinality(CutEnds) \in Nat /\ Cardinality(cut) \in Nat
    BY <1>2, EntriesFinite
  <2>2. Cardinality(endsAt) <= Cardinality(CutEnds) /\ Cardinality(behind) <= Cardinality(cut)
    BY <1>2, <2>1, FS_Subset
  <2>3. IsFiniteSet(A) /\ Cardinality(A) <= Cardinality(endsAt)
    <3> HIDE DEF endsAt, first
    <3> QED BY <1>4, <2>1, FewerValues
  <2>4. IsFiniteSet(B) /\ Cardinality(B) <= Cardinality(behind)
    <3> HIDE DEF behind, second
    <3> QED BY <1>4, <2>1, FewerValues
  <2>5. Cardinality(A) \in Nat /\ Cardinality(B) \in Nat
    BY <2>3, <2>4, FS_CardinalityType
  <2> HIDE DEF endsAt, behind, A, B
  <2> QED BY <2>1, <2>2, <2>3, <2>4, <2>5
<1> HIDE DEF A, B
<1>7. /\ IsFiniteSet(Silent) /\ Cardinality(Silent) \in Nat
      /\ Cardinality(Silent) <= kills + Cardinality(cut \ CutEnds)
      /\ kills \in Nat
  <2>1. Silent \in SUBSET Ticket  BY <1>1 DEF TypeOK, Silent
  <2>2. IsFiniteSet(Silent) /\ Cardinality(Silent) \in Nat  BY <2>1, TicketsFinite
  <2>3. Cardinality(Silent) + (IF AtRisk THEN 1 ELSE 0) <= Excuses  BY <1>1 DEF DropsPaid
  <2>4. kills \in Nat  BY <1>1, JournalAssumption DEF TypeOK
  <2>5. cut \ CutEnds \in SUBSET Entry  BY <1>2
  <2>6. Cardinality(cut \ CutEnds) \in Nat  BY <2>5, EntriesFinite
  <2>7. Excuses \in Nat /\ Cardinality(Silent) <= Excuses
    <3>1. Excuses \in Nat  BY <2>4, <2>6 DEF Excuses
    <3> QED BY <2>2, <2>3, <3>1
  <2> QED BY <2>2, <2>4, <2>7 DEF Excuses
<1>8. Cardinality(cut \ CutEnds) = Cardinality(cut) - Cardinality(CutEnds)
  <2>1. IsFiniteSet(cut) /\ cut \cap CutEnds = CutEnds  BY <1>2, EntriesFinite
  <2> QED BY <2>1, FS_Difference
<1>9. Cardinality(Untold) <= Cardinality(Silent) + (Cardinality(A) + Cardinality(B))
  <2>1. /\ IsFiniteSet(A \cup B) /\ Cardinality(A \cup B) <= Cardinality(A) + Cardinality(B)
    BY <1>6, UnionBound
  <2>2. /\ IsFiniteSet(Silent \cup (A \cup B))
        /\ Cardinality(Silent \cup (A \cup B)) <= Cardinality(Silent) + Cardinality(A \cup B)
    BY <1>7, <2>1, UnionBound
  <2>3. /\ IsFiniteSet(Untold)
        /\ Cardinality(Untold) <= Cardinality(Silent \cup (A \cup B))
    BY <1>5, <2>2, FS_Subset
  <2>4. /\ Cardinality(A \cup B) \in Nat /\ Cardinality(Silent \cup (A \cup B)) \in Nat
        /\ Cardinality(Untold) \in Nat
    BY <2>1, <2>2, <2>3, FS_CardinalityType
  <2> QED BY <1>6, <1>7, <2>1, <2>2, <2>3, <2>4
<1>10. Cardinality(Untold) \in Nat
  <2>1. Untold \in SUBSET Ticket  BY <1>1 DEF Untold, TypeOK
  <2> QED BY <2>1, TicketsFinite
<1> QED BY <1>6, <1>7, <1>8, <1>9, <1>10 DEF Faults

\* The trade journal tells of the end of every position once, but for what a
\* kill or a cut append costs: whatever the order of cycles, acks, external
\* closes, rotations and restarts, a position is neither reported as closed
\* from outside more often than it came to be believed, nor dropped from the
\* saved state without a line.
THEOREM ClosesAreTold == Spec => []ClosesTold
<1>1. JournalInv /\ TellInv => ClosesTold
  <2>1. SUFFICES ASSUME JournalInv, TellInv PROVE ClosesTold  OBVIOUS
  <2>2. TypeOK /\ ToldOnce  BY <2>1 DEF JournalInv, TellInv
  <2>3. ASSUME ~text["trade"].broken, NEW t \in Ticket
        PROVE  Cardinality(Lines(t, {"EXTERNAL"})) <= beliefs[t] + Faults
    <3>1. Lines(t, {"EXTERNAL"}) \subseteq ExternalLines[t]
      BY <2>1, LostLines DEF Lines, ExternalLines
    <3>2. ExternalLines[t] \in SUBSET Entry
      BY <2>1, LostLines DEF ExternalLines
    <3>3. /\ IsFiniteSet(ExternalLines[t]) /\ Cardinality(ExternalLines[t]) \in Nat
      BY <3>2, EntriesFinite
    <3>4. Lines(t, {"EXTERNAL"}) \in SUBSET Entry  BY DEF Lines
    <3>5. /\ Cardinality(Lines(t, {"EXTERNAL"})) <= Cardinality(ExternalLines[t])
          /\ Cardinality(Lines(t, {"EXTERNAL"})) \in Nat
      BY <3>1, <3>3, <3>4, FS_Subset, EntriesFinite
    <3>6. Cardinality(ExternalLines[t]) + (IF t \in Due THEN 1 ELSE 0) <= beliefs[t] + Faults
      BY <2>2, <2>3 DEF ToldOnce
    <3>7. beliefs[t] \in Nat /\ Faults \in Nat
      <4>1. cut \in SUBSET Entry /\ kills \in Nat  BY <2>2, JournalAssumption DEF TypeOK
      <4> QED BY <2>2, <4>1, EntriesFinite DEF TypeOK, Faults
    <3> QED BY <3>3, <3>5, <3>6, <3>7
  <2> QED BY <2>1, <2>3, UntoldBounded DEF ClosesTold
<1> QED BY <1>1, JournalTold, PTL
=============================================================================
