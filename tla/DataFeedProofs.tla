--------------------------- MODULE DataFeedProofs ----------------------------
(***************************************************************************)
(* What holds of DataFeed for every number of EAs, bars, retries and       *)
(* faults.  The inductive invariant FeedInv has two halves: what the EAs   *)
(* can leave in a .tmp and in a file, and that whatever the reader holds   *)
(* was in its file since the pass began.                                   *)
(***************************************************************************)
EXTENDS DataFeed, TLAPS

Market(e) == <<"market", e>>
Shared    == <<"status", NoEa>>

-----------------------------------------------------------------------------
\* The clock, the files and the EAs.  The EA that has a .tmp open is the one
\* that writes it, both ways.
EasTyped ==
    /\ now \in Time /\ faults \in 0..MaxFaults
    /\ final \in [File -> Text] /\ tmp \in [File -> Text]
    /\ writer \in [File -> Ea \cup {NoEa}]
    /\ at \in [Ea -> Kind \cup {"none"}] /\ step \in [Ea -> {"open", "close", "move"}]
    /\ bar \in [Ea -> 0..now] /\ exported \in [Ea -> 0..now]
    /\ \A f \in File : writer[f] # NoEa => Exporting(writer[f], "close") /\ Target(writer[f]) = f
    /\ \A e \in Ea : Exporting(e, "close") => writer[Target(e)] = e
    /\ \A e \in Ea : at[e] = "none" => step[e] = "open"

\* Where half a text can be: never where the EA of a market file is about to move it,
\* and in the shared .tmp only while somebody writes it or after a fault.
HalfTexts ==
    /\ \A e \in Ea : at[e] = "market" /\ step[e] = "move" => tmp[Market(e)] # HalfText
    /\ tmp[Shared] = HalfText => writer[Shared] # NoEa \/ faults > 0

ReaderTyped ==
    /\ passStart \in 0..now
    /\ pc \in {"idle", "load", "open", "close", "stat", "judge"}
    /\ instance \in Ea /\ kind \in Kind /\ attempt \in 0..RetryMax /\ text \in Text
    /\ cache \in [File -> [text : Text, modified : Text]] /\ loaded \in [Kind -> Text]
    /\ seen \in [File -> SUBSET Text]

\* What the reader holds, at each stage, its file has held since the pass began.
OfThisPass ==
    /\ pc = "idle" => kind = "market" /\ \A f \in File : cache[f].text = NoText
    /\ pc # "idle" => \A f \in File : final[f] \in seen[f]
    /\ pc \in {"close", "stat"} => text \in seen[Current]
    /\ \A f \in File : cache[f].text # NoText => cache[f].text \in seen[f]
    /\ kind = "status" => loaded["market"] \in seen[Market(instance)]
    /\ pc = "judge" => kind = "status" /\ loaded["status"] \in seen[Shared]

FeedInv == EasTyped /\ HalfTexts /\ WholeFiles /\ ReaderTyped /\ OfThisPass

-----------------------------------------------------------------------------
\* Which files there are.
LEMMA FileFacts ==
    /\ \A e \in Ea : Market(e) \in File /\ Market(e) # Shared
    /\ Shared \in File
    /\ \A f \in File : f = Shared \/ \E e \in Ea : f = Market(e)
    /\ \A e, d \in Ea : Market(e) = Market(d) => e = d
    /\ \A e \in Ea : FileOf("market", e) = Market(e) /\ FileOf("status", e) = Shared
    /\ \A k \in Kind, e \in Ea : FileOf(k, e) \in File
    /\ Kind = {"market", "status"}
<1>1. \A f \in File : f = Shared \/ \E e \in Ea : f = Market(e)
  BY DEF File, Market, Shared
<1>2. Kind = {"market", "status"}  BY DEF Kind
<1>3. \A e \in Ea : Market(e) \in File /\ Market(e) # Shared  BY DEF File, Market, Shared
<1>4. Shared \in File  BY DEF File, Shared
<1>5. \A e, d \in Ea : Market(e) = Market(d) => e = d  BY DEF Market
<1>6. \A e \in Ea : FileOf("market", e) = Market(e) /\ FileOf("status", e) = Shared
  BY DEF FileOf, Market, Shared
<1> QED BY <1>1, <1>2, <1>3, <1>4, <1>5, <1>6

\* Texts and bars are numbers, and half a text is none of the bars.
LEMMA TextFacts ==
    ASSUME now \in Time
    PROVE  /\ NoText \in Text /\ HalfText \in Text /\ HalfText # NoText
           /\ 0..now \subseteq Text /\ HalfText \notin 0..now /\ 1 \in Text
           /\ now \in 0..now /\ 0 \in 0..now
           /\ 0 \notin Ea /\ MaxTime \in Nat
<1>1. MaxTime \in Nat \ {0} /\ NumEas \in Nat \ {0}  BY FeedAssumption
<1> QED BY <1>1 DEF Time, Text, NoText, HalfText, Ea

\* The file that an EA writes.
LEMMA TargetFacts ==
    ASSUME EasTyped, NEW e \in Ea, at[e] # "none"
    PROVE  /\ Target(e) \in File
           /\ at[e] \in Kind
           /\ Target(e) = IF at[e] = "market" THEN Market(e) ELSE Shared
<1>1. at[e] \in Kind  BY DEF EasTyped
<1>2. at[e] = "market" \/ at[e] = "status"  BY <1>1, FileFacts
<1> QED BY <1>1, <1>2, FileFacts DEF Target

\* The file that the reader reads.
LEMMA CurrentFacts ==
    ASSUME ReaderTyped
    PROVE  /\ Current \in File
           /\ kind = "market" => Current = Market(instance)
           /\ kind = "status" => Current = Shared
           /\ Market(instance) \in File
BY FileFacts DEF ReaderTyped, Current

-----------------------------------------------------------------------------
(* The EAs.                                                                *)

LEMMA EasInitial == ASSUME Init PROVE EasTyped /\ HalfTexts /\ WholeFiles
<1>1. 1 \in Time /\ MaxFaults \in Nat  BY FeedAssumption DEF Time
<1>2. now = 1 /\ now \in Time  BY <1>1 DEF Init
<1>3. /\ \A f \in File : writer[f] = NoEa /\ tmp[f] = NoText /\ final[f] \in {1, NoText}
      /\ \A e \in Ea : at[e] = "none" /\ step[e] = "open"
  BY DEF Init
<1>4. /\ final \in [File -> Text] /\ tmp \in [File -> Text]
      /\ writer \in [File -> Ea \cup {NoEa}]
  BY <1>2, TextFacts DEF Init
<1>5. /\ at \in [Ea -> Kind \cup {"none"}] /\ step \in [Ea -> {"open", "close", "move"}]
      /\ bar \in [Ea -> 0..now] /\ exported \in [Ea -> 0..now] /\ faults \in 0..MaxFaults
  BY <1>1, <1>2 DEF Init
<1>6. EasTyped  BY <1>2, <1>3, <1>4, <1>5 DEF EasTyped, Exporting
<1>7. HalfTexts  BY <1>2, <1>3, FileFacts, TextFacts DEF HalfTexts
<1>8. WholeFiles
  <2>1. HalfText \notin {1, NoText}  BY <1>2, TextFacts
  <2> QED BY <1>3, <2>1, FileFacts DEF WholeFiles
<1> QED BY <1>6, <1>7, <1>8

\* An EA keeps the types, and what it leaves half done is where it may be.
LEMMA EasKeep ==
    ASSUME EasTyped, HalfTexts, WholeFiles, NEW e \in Ea, EaStep(e) \/ WriteFails(e) \/ EaStops(e)
    PROVE  EasTyped' /\ HalfTexts' /\ WholeFiles'
<1> USE DEF Exporting
<1>0. now \in Time  BY DEF EasTyped
<1>1. CASE OnTick(e)
  <2>1. EasTyped'
    BY <1>0, <1>1, TextFacts, FileFacts DEF OnTick, EasTyped, files, Target
  <2>2. HalfTexts' /\ WholeFiles'
    BY <1>1 DEF OnTick, HalfTexts, WholeFiles, EasTyped, files
  <2> QED BY <2>1, <2>2
<1>2. CASE OpenTmp(e)
  <2>1. EasTyped'
    <3>1. /\ writer' = [writer EXCEPT ![Target(e)] = e] /\ writer[Target(e)] = NoEa
          /\ tmp' = [tmp EXCEPT ![Target(e)] = HalfText]
          /\ step' = [step EXCEPT ![e] = "close"]
          /\ UNCHANGED <<now, final, at, bar, exported, faults>>
          /\ Target(e) \in File /\ at[e] # "none"
          /\ \A d \in Ea : Target(d)' = Target(d)
      BY <1>2, TargetFacts DEF OpenTmp, Target
    <3>2. HalfText \in Text /\ NoEa \notin Ea  BY <1>0, TextFacts DEF NoEa
    <3>3. \A f \in File : writer'[f] # NoEa => /\ writer'[f] \in Ea /\ Target(writer'[f]) = f
                                              /\ step'[writer'[f]] = "close"
                                              /\ at[writer'[f]] # "none"
      BY <3>1, <3>2 DEF EasTyped
    <3>4. ASSUME NEW d \in Ea, Exporting(d, "close")'  PROVE writer'[Target(d)] = d
      <4>1. CASE d = e  BY <3>1, <4>1 DEF EasTyped
      <4>2. CASE d # e
        <5>1. at[d] # "none" /\ step[d] = "close"  BY <3>1, <3>4, <4>2 DEF EasTyped
        <5>2. writer[Target(d)] = d /\ Target(d) # Target(e)  BY <3>1, <3>2, <5>1 DEF EasTyped
        <5>3. Target(d) \in File  BY <5>1, TargetFacts
        <5> QED BY <3>1, <5>2, <5>3 DEF EasTyped
      <4> QED BY <4>1, <4>2
    <3> QED BY <3>1, <3>2, <3>3, <3>4 DEF EasTyped, Target
  <2>2. HalfTexts' /\ WholeFiles'
    <3>1. WholeFiles'  BY <1>2 DEF OpenTmp, WholeFiles
    <3>2. \A d \in Ea : at[d]' = "market" /\ step[d]' = "move"
            => d # e /\ tmp'[Market(d)] = tmp[Market(d)]
      BY <1>2, TargetFacts, FileFacts DEF OpenTmp, EasTyped
    <3>3. tmp'[Shared] = HalfText => writer'[Shared] # NoEa \/ faults > 0
      BY <1>0, <1>2, TextFacts, TargetFacts, FileFacts DEF OpenTmp, HalfTexts, EasTyped, NoEa
    <3> QED BY <1>2, <3>1, <3>2, <3>3 DEF HalfTexts, OpenTmp
  <2> QED BY <2>1, <2>2
<1>3. CASE CloseTmp(e)
  <2>1. bar[e] \in Text /\ bar[e] # HalfText  BY <1>0, TextFacts DEF EasTyped
  <2>2. EasTyped'
    BY <1>0, <1>3, <2>1, TextFacts, TargetFacts DEF CloseTmp, EasTyped, Target
  <2>3. HalfTexts' /\ WholeFiles'
    BY <1>0, <1>3, <2>1, TextFacts, TargetFacts, FileFacts
    DEF CloseTmp, HalfTexts, WholeFiles, EasTyped
  <2> QED BY <2>2, <2>3
<1>4. CASE Replace(e)
  <2>1. at[e] \in Kind /\ After[at[e]] \in Kind \cup {"none"}
    BY <1>4, TargetFacts, FileFacts DEF Replace, After
  <2>2. EasTyped'
    BY <1>0, <1>4, <2>1, TextFacts, TargetFacts DEF Replace, EasTyped, Target
  <2>3. HalfTexts' /\ WholeFiles'
    BY <1>0, <1>4, TextFacts, TargetFacts, FileFacts
    DEF Replace, Replaceable, HalfTexts, WholeFiles, EasTyped
  <2> QED BY <2>2, <2>3
<1>5. CASE ExportFails(e)
  <2>1. EasTyped'
    BY <1>0, <1>5, TextFacts, TargetFacts DEF ExportFails, EasTyped, files, Target
  <2>2. HalfTexts' /\ WholeFiles'
    BY <1>5 DEF ExportFails, HalfTexts, WholeFiles, EasTyped, files
  <2> QED BY <2>1, <2>2
<1>6. CASE EaStops(e)
  <2>1. faults' \in 0..MaxFaults /\ faults' > 0  BY <1>6, FeedAssumption DEF EaStops, EasTyped
  <2>2. EasTyped'
    BY <1>0, <1>6, <2>1, TextFacts, TargetFacts DEF EaStops, EasTyped, Target
  <2>3. HalfTexts' /\ WholeFiles'
    BY <1>6, <2>1 DEF EaStops, HalfTexts, WholeFiles, EasTyped
  <2> QED BY <2>2, <2>3
<1>7. CASE WriteFails(e)
  <2>1. faults' \in 0..MaxFaults /\ faults' > 0  BY <1>7, FeedAssumption DEF WriteFails, EasTyped
  <2>2. PICK content \in {HalfText, bar[e]} : tmp' = [tmp EXCEPT ![Target(e)] = content]
    BY <1>7 DEF WriteFails
  <2>3. content \in Text  BY <1>0, <2>2, TextFacts DEF EasTyped
  <2>4. EasTyped'
    BY <1>0, <1>7, <2>1, <2>2, <2>3, TextFacts, TargetFacts DEF WriteFails, EasTyped, Target
  <2>5. \A d \in Ea : at[d]' = "market" /\ step[d]' = "move"
          => at[d] = "market" /\ step[d] = "move" /\ tmp'[Market(d)] = tmp[Market(d)]
    BY <1>7, <2>2, TargetFacts, FileFacts DEF WriteFails, EasTyped
  <2>6. HalfTexts' /\ WholeFiles'
    BY <1>7, <2>1, <2>5 DEF WriteFails, HalfTexts, WholeFiles
  <2> QED BY <2>4, <2>6
<1> QED BY <1>1, <1>2, <1>3, <1>4, <1>5, <1>6, <1>7 DEF EaStep

\* The reader and the clock leave the files and the EAs alone.
LEMMA EasLeft ==
    ASSUME EasTyped, HalfTexts, WholeFiles, UNCHANGED <<files, eas, faults>>,
           now' = now \/ NewBar
    PROVE  EasTyped' /\ HalfTexts' /\ WholeFiles'
<1>1. now' \in Time /\ 0..now \subseteq 0..now'
  BY FeedAssumption DEF EasTyped, NewBar, Time
<1>2. EasTyped'  BY <1>1 DEF EasTyped, files, eas, Exporting, Target
<1>3. HalfTexts' /\ WholeFiles'  BY DEF HalfTexts, WholeFiles, files, eas
<1> QED BY <1>2, <1>3

-----------------------------------------------------------------------------
(* The reader.                                                             *)

LEMMA ReaderInitial == ASSUME Init PROVE ReaderTyped /\ OfThisPass
<1>1. now = 1 /\ now \in Time /\ 1 \in Ea /\ RetryMax \in Nat
  BY FeedAssumption DEF Init, Time, Ea
<1>2. ReaderTyped
  BY <1>1, TextFacts DEF Init, ReaderTyped, NoEntry, NothingLoaded, Kind
<1>3. OfThisPass
  BY DEF Init, OfThisPass, NoEntry
<1> QED BY <1>2, <1>3

\* The clock and the EAs leave the reader alone; a file that is replaced during a
\* pass is noted.
LEMMA ReaderLeft ==
    ASSUME EasTyped, ReaderTyped, OfThisPass,
           NewBar \/ \E e \in Ea : EaStep(e) \/ WriteFails(e) \/ EaStops(e)
    PROVE  ReaderTyped' /\ OfThisPass'
<1>0. now \in Time  BY DEF EasTyped
<1>1. UNCHANGED reader
  BY DEF NewBar, EaStep, OnTick, OpenTmp, CloseTmp, Replace, ExportFails, WriteFails,
      EaStops
<1>2. now' \in Time /\ 0..now \subseteq 0..now'
  BY FeedAssumption
  DEF EasTyped, Time, NewBar, EaStep, OnTick, OpenTmp, CloseTmp, Replace, ExportFails, WriteFails,
      EaStops
<1>3. CASE seen' = seen /\ final' = final
  BY <1>1, <1>2, <1>3 DEF reader, ReaderTyped, OfThisPass, Current
<1>4. CASE \E e \in Ea : Replace(e)
  <2>1. PICK e \in Ea : Replace(e)  BY <1>4
  <2>2. Target(e) \in File /\ tmp[Target(e)] \in Text
    BY <2>1, TargetFacts DEF Replace, Exporting, EasTyped
  <2>3. seen' \in [File -> SUBSET Text] /\ \A f \in File : seen[f] \subseteq seen'[f]
    BY <2>1, <2>2 DEF Replace, ReaderTyped
  <2>4. pc # "idle" => \A f \in File : final'[f] \in seen'[f]
    BY <2>1, <2>2 DEF Replace, ReaderTyped, EasTyped, OfThisPass
  <2>5. Current \in File /\ Market(instance) \in File /\ Shared \in File
    BY CurrentFacts, FileFacts
  <2> QED BY <1>1, <1>2, <2>3, <2>4, <2>5 DEF reader, ReaderTyped, OfThisPass, Current
<1> QED BY <1>3, <1>4
        DEF NewBar, EaStep, OnTick, OpenTmp, CloseTmp, ExportFails, WriteFails,
      EaStops, files

\* The end of a cycle, and maybe of the pass.
LEMMA CycleEnd ==
    ASSUME EasTyped, ReaderTyped, OfThisPass, NextInstance, pc # "idle"
    PROVE  ReaderTyped' /\ OfThisPass'
<1>0. now \in Time /\ UNCHANGED <<now, files>>  BY DEF EasTyped, NextInstance, EndCycle
<1>1. 1 \in Ea /\ (instance # NumEas => instance + 1 \in Ea) /\ RetryMax \in Nat
  BY FeedAssumption DEF Ea, ReaderTyped
<1>2. CASE instance = NumEas
  <2>1. ReaderTyped'
    BY <1>0, <1>1, <1>2, TextFacts
    DEF ReaderTyped, NextInstance, EndCycle, EndPass, NothingLoaded, NoEntry, Kind
  <2>2. OfThisPass'
    BY <1>2 DEF OfThisPass, NextInstance, EndCycle, EndPass, NoEntry
  <2> QED BY <2>1, <2>2
<1>3. CASE instance # NumEas
  <2>1. ReaderTyped'
    BY <1>0, <1>1, <1>3, TextFacts DEF ReaderTyped, NextInstance, EndCycle, NothingLoaded, Kind
  <2>2. OfThisPass'
    BY <1>0, <1>3 DEF OfThisPass, NextInstance, EndCycle, files
  <2> QED BY <2>1, <2>2
<1> QED BY <1>2, <1>3

\* A text that the file has held becomes what the cycle goes by.
LEMMA Loading ==
    ASSUME EasTyped, ReaderTyped, OfThisPass, NEW content \in Text, content \in seen[Current],
           pc # "idle", pc # "judge", Load(content), UNCHANGED <<now, files, instance, passStart, seen>>,
           cache' \in [File -> [text : Text, modified : Text]],
           \A f \in File : cache'[f].text # NoText => cache'[f].text \in seen[f]
    PROVE  ReaderTyped' /\ OfThisPass'
<1>0. now \in Time /\ RetryMax \in Nat  BY FeedAssumption DEF EasTyped
<1>1. /\ kind \in {"market", "status"}
      /\ After["market"] = "status" /\ After["status"] = "none"
  BY FileFacts DEF ReaderTyped, After
<1>2. CASE kind = "market"
  <2>1. pc' = "load" /\ kind' = "status" /\ loaded' = [loaded EXCEPT !["market"] = content]
        /\ attempt' = 0 /\ text' = NoText
    BY <1>1, <1>2 DEF Load
  <2>2. content \in seen[Market(instance)]  BY <1>2, CurrentFacts
  <2>3. ReaderTyped'  BY <1>0, <2>1, TextFacts DEF ReaderTyped, Kind
  <2>4. OfThisPass'  BY <2>1, <2>2 DEF OfThisPass, ReaderTyped, files, Kind
  <2> QED BY <2>3, <2>4
<1>3. CASE kind = "status"
  <2>1. pc' = "judge" /\ kind' = "status" /\ loaded' = [loaded EXCEPT !["status"] = content]
        /\ attempt' = 0 /\ text' = NoText
    BY <1>1, <1>3 DEF Load
  <2>2. content \in seen[Shared]  BY <1>3, CurrentFacts
  <2>3. ReaderTyped'  BY <1>0, <2>1, TextFacts DEF ReaderTyped, Kind
  <2>4. OfThisPass'  BY <1>3, <2>1, <2>2 DEF OfThisPass, ReaderTyped, files, Kind
  <2> QED BY <2>3, <2>4
<1> QED BY <1>1, <1>2, <1>3

LEMMA ReaderKeeps ==
    ASSUME EasTyped, ReaderTyped, OfThisPass, Reader
    PROVE  ReaderTyped' /\ OfThisPass'
<1>0. now \in Time /\ RetryMax \in Nat /\ final \in [File -> Text]
  BY FeedAssumption DEF EasTyped
<1>1. CASE BeginPass
  <2>1. ReaderTyped'
    BY <1>0, <1>1, TextFacts DEF BeginPass, ReaderTyped
  <2>2. OfThisPass'
    BY <1>1 DEF BeginPass, OfThisPass, files
  <2> QED BY <2>1, <2>2
<1>2. CASE LoadCached
  <2>1. Current \in File /\ cache[Current].text \in Text /\ cache[Current].text # NoText
        /\ cache[Current].text \in seen[Current]
    BY <1>2, CurrentFacts DEF LoadCached, CacheHit, OfThisPass, ReaderTyped
  <2>2. cache' \in [File -> [text : Text, modified : Text]]
    BY <1>0, <1>2, <2>1 DEF LoadCached, ReaderTyped
  <2>3. \A f \in File : cache'[f].text = cache[f].text
    BY <1>2, <2>1 DEF LoadCached, ReaderTyped
  <2>4. \A f \in File : cache'[f].text # NoText => cache'[f].text \in seen[f]
    BY <2>3 DEF OfThisPass
  <2> QED BY <1>2, <2>1, <2>2, <2>4, Loading DEF LoadCached
<1>3. CASE CheckFile
  <2>1. pc = "load" /\ pc' = "open"
        /\ UNCHANGED <<now, files, instance, kind, attempt, text, cache, loaded, passStart, seen>>
    BY <1>3 DEF CheckFile, Reading
  <2> QED BY <2>1 DEF ReaderTyped, OfThisPass, Current, files
<1>4. CASE Retry
  <2>1. pc = "load" /\ attempt' \in 0..RetryMax
        /\ UNCHANGED <<now, files, pc, instance, kind, text, cache, loaded, passStart, seen>>
    BY <1>0, <1>4 DEF Retry, Reading, ReaderTyped
  <2> QED BY <2>1 DEF ReaderTyped, OfThisPass, Current, files
<1>5. CASE LoadFails
  BY <1>5, CycleEnd DEF LoadFails, Reading
<1>6. CASE OpenFile
  <2>1. Current \in File /\ final[Current] \in Text /\ final[Current] \in seen[Current]
    BY <1>0, <1>6, CurrentFacts DEF OpenFile, OfThisPass
  <2>2. pc = "open" /\ pc' = "close" /\ text' = final[Current]
        /\ UNCHANGED <<now, files, instance, kind, attempt, cache, loaded, passStart, seen>>
    BY <1>6 DEF OpenFile
  <2> QED BY <2>1, <2>2 DEF ReaderTyped, OfThisPass, Current, files
<1>7. CASE CloseFile
  <2>1. pc = "close" /\ pc' = "stat"
        /\ UNCHANGED <<now, files, instance, kind, attempt, text, cache, loaded, passStart, seen>>
    BY <1>7 DEF CloseFile
  <2> QED BY <2>1 DEF ReaderTyped, OfThisPass, Current, files
<1>8. CASE LoadRead
  <2>1. Current \in File /\ text \in Text /\ text \in seen[Current] /\ final[Current] \in Text
    BY <1>0, <1>8, CurrentFacts DEF LoadRead, OfThisPass, ReaderTyped
  <2>2. cache' = [cache EXCEPT ![Current] = [text |-> text, modified |-> final[Current]]]
    BY <1>8 DEF LoadRead
  <2>3. cache' \in [File -> [text : Text, modified : Text]]
    BY <2>1, <2>2 DEF ReaderTyped
  <2>4. \A f \in File : cache'[f].text # NoText => cache'[f].text \in seen[f]
    BY <2>1, <2>2 DEF OfThisPass, ReaderTyped
  <2> QED BY <1>8, <2>1, <2>3, <2>4, Loading DEF LoadRead
<1>9. CASE SkipCycle
  BY <1>9, CycleEnd DEF SkipCycle
<1>10. CASE Decide
  BY <1>10, CycleEnd DEF Decide, Deciding
<1> QED BY <1>1, <1>2, <1>3, <1>4, <1>5, <1>6, <1>7, <1>8, <1>9, <1>10 DEF Reader

-----------------------------------------------------------------------------
\* Each step keeps the invariant.
LEMMA FeedStep == FeedInv /\ [Next]_vars => FeedInv'
<1> SUFFICES ASSUME FeedInv, [Next]_vars  PROVE FeedInv'  OBVIOUS
<1> USE DEF FeedInv
<1>1. CASE NewBar
  BY <1>1, EasLeft, ReaderLeft DEF NewBar
<1>2. CASE Reader
  <2>1. UNCHANGED <<now, files, eas, faults>>
    BY <1>2 DEF Reader, BeginPass, LoadCached, CheckFile, Retry, LoadFails, OpenFile, CloseFile,
                LoadRead, SkipCycle, Decide, NextInstance, EndCycle
  <2> QED BY <1>2, <2>1, EasLeft, ReaderKeeps
<1>3. CASE \E e \in Ea : EaStep(e) \/ WriteFails(e) \/ EaStops(e)
  BY <1>3, EasKeep, ReaderLeft
<1>4. CASE UNCHANGED vars
  <2>1. UNCHANGED <<now, files, eas, faults>> /\ UNCHANGED <<reader, seen>>  BY <1>4 DEF vars
  <2>2. ReaderTyped' /\ OfThisPass'
    BY <2>1 DEF ReaderTyped, OfThisPass, Current, reader, files
  <2> QED BY <2>1, <2>2, EasLeft
<1> QED BY <1>1, <1>2, <1>3, <1>4 DEF Next

\* Files and reader are what FeedInv says, in every reachable state.
THEOREM FeedInvariant == Spec => []FeedInv
<1>1. Init => FeedInv  BY EasInitial, ReaderInitial DEF FeedInv
<1> QED BY <1>1, FeedStep, PTL DEF Spec

\* The types of the files, the EAs and the reader.
THEOREM FeedTypes == Spec => []TypeOK
<1>1. FeedInv => TypeOK  BY DEF FeedInv, EasTyped, ReaderTyped, TypeOK
<1> QED BY <1>1, FeedInvariant, PTL

\* Only the shared file can become half a text, and only after an EA was stopped or failed
\* to write (SYSTEM_IO.mqh:66).
THEOREM FilesWhole == Spec => []WholeFiles
<1>1. FeedInv => WholeFiles  BY DEF FeedInv
<1> QED BY <1>1, FeedInvariant, PTL

\* A decision goes by whole texts of its own pass (cache.py:37, status_loader.py:63).
THEOREM DecisionsOfThisPass == Spec => []DecidesOnThisPass
<1>1. FeedInv => DecidesOnThisPass
  <2> SUFFICES ASSUME FeedInv, Deciding, NEW k \in Kind
               PROVE  loaded[k] \in seen[FileOf(k, instance)] \ {HalfText}
    BY DEF DecidesOnThisPass
  <2>1. loaded[k] # HalfText  BY DEF Deciding, Valid
  <2>2. loaded[k] \in seen[FileOf(k, instance)]
    BY FileFacts DEF FeedInv, ReaderTyped, OfThisPass, Deciding
  <2> QED BY <2>1, <2>2
<1> QED BY <1>1, FeedInvariant, PTL
=============================================================================
