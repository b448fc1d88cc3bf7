------------------------------ MODULE DataFeed ------------------------------
(***************************************************************************)
(* The files that the EAs of one account export and the process reads: of  *)
(* each instance a market file, and a status file that all EAs of the      *)
(* account write.  The sensor file goes the way of the market file, and    *)
(* the universe file that of the status file: each stands for the pair.    *)
(*                                                                         *)
(* An EA writes `{file}.tmp`, which nobody else can open meanwhile, closes *)
(* it and moves it over the file.  The move fails while the .tmp is open   *)
(* in another EA or the file open in the reader.  The reader refuses a     *)
(* file whose .tmp exists and tries again, RetryMax times.                 *)
(*                                                                         *)
(* Abstracted: a text is the M1 bar it was exported at; the modification   *)
(* time of a file as well.  A whole text is valid, half a text is not.     *)
(***************************************************************************)
EXTENDS Integers, FiniteSets

CONSTANTS
    NumEas,          \* one EA for each instance of the account
    Early,           \* the EAs that have exported the first bar at the start
    RetryMax,        \* runtime.retry_max
    StaleThreshold,  \* runtime.data_stale_threshold_ms, in M1 bars
    MaxTime,         \* bound on the clock, in M1 bars
    MaxFaults        \* bound on EAs stopped, by the terminal or the operator, and writes failed

ASSUME FeedAssumption ==
    /\ NumEas \in Nat \ {0} /\ RetryMax \in Nat /\ StaleThreshold \in Nat
    /\ MaxTime \in Nat \ {0} /\ MaxFaults \in Nat /\ Early \subseteq 1..NumEas

Ea      == 1..NumEas
NoEa    == 0
Kind    == {"market", "status"}
File    == ({"market"} \X Ea) \cup {<<"status", NoEa>>}

FileOf(k, e) == IF k = "market" THEN <<"market", e>> ELSE <<"status", NoEa>>

\* In the order in which they are written, and read.
After == [market |-> "status", status |-> "none"]

Time     == 1..MaxTime
NoText   == 0
HalfText == MaxTime + 1
Text     == NoText..HalfText

NoEntry == [text |-> NoText, modified |-> NoText]

VARIABLES
    now,
    final, tmp,       \* the files and their .tmp files
    writer,           \* the EA that has the .tmp open
    at, step, bar,    \* of each EA: the file it exports, how far, and at which bar
    exported,         \* g_last_exported_bar_time of each EA
    pc, instance, kind, attempt, text,   \* what the reader does
    cache, loaded,    \* of the pass, of the cycle
    passStart,        \* resolved_timestamp
    seen,             \* history: the texts that each file had since the pass began
    faults

files  == <<final, tmp, writer>>
eas    == <<at, step, bar, exported>>
reader == <<pc, instance, kind, attempt, text, cache, loaded, passStart>>
vars   == <<now, files, eas, reader, seen, faults>>

NothingLoaded == [k \in Kind |-> NoText]

Init ==
    /\ now = 1
    /\ final = [f \in File |-> IF \E e \in Early, k \in Kind : f = FileOf(k, e)
                                THEN 1 ELSE NoText]
    /\ tmp = [f \in File |-> NoText]
    /\ writer = [f \in File |-> NoEa]
    /\ at = [e \in Ea |-> "none"] /\ step = [e \in Ea |-> "open"]
    /\ bar = [e \in Ea |-> 0] /\ exported = [e \in Ea |-> IF e \in Early THEN 1 ELSE 0]
    /\ pc = "idle" /\ instance = 1 /\ kind = "market" /\ attempt = 0 /\ text = NoText
    /\ cache = [f \in File |-> NoEntry] /\ loaded = NothingLoaded
    /\ passStart = 0
    /\ seen = [f \in File |-> {}]
    /\ faults = 0

NewBar ==
    /\ now < MaxTime /\ now' = now + 1
    /\ UNCHANGED <<files, eas, reader, seen, faults>>

(***************************************************************************)
(* The EAs                                                                 *)
(***************************************************************************)
Exporting(e, s) == at[e] # "none" /\ step[e] = s
Target(e) == FileOf(at[e], e)

\* The reader has the file open.
Held(f) == pc = "close" /\ f = FileOf(kind, instance)

\* Faulty: the bar counts as exported before its files are.
OnTickMarksFirst(e) ==
    /\ at[e] = "none" /\ exported[e] # now
    /\ at' = [at EXCEPT ![e] = "market"] /\ bar' = [bar EXCEPT ![e] = now]
    /\ exported' = [exported EXCEPT ![e] = now]
    /\ UNCHANGED <<now, files, step, reader, seen, faults>>

\* OnTick on a new M1 bar.
OnTick(e) ==
    /\ at[e] = "none" /\ exported[e] # now
    /\ at' = [at EXCEPT ![e] = "market"] /\ bar' = [bar EXCEPT ![e] = now]
    /\ UNCHANGED <<now, files, step, exported, reader, seen, faults>>

OpenTmp(e) ==
    /\ Exporting(e, "open") /\ writer[Target(e)] = NoEa
    /\ writer' = [writer EXCEPT ![Target(e)] = e]
    /\ tmp' = [tmp EXCEPT ![Target(e)] = HalfText]
    /\ step' = [step EXCEPT ![e] = "close"]
    /\ UNCHANGED <<now, final, at, bar, exported, reader, seen, faults>>

\* Faulty: the handle is not closed.
CloseTmpKeepsHandle(e) ==
    /\ Exporting(e, "close")
    /\ tmp' = [tmp EXCEPT ![Target(e)] = bar[e]]
    /\ step' = [step EXCEPT ![e] = "move"]
    /\ UNCHANGED <<now, final, writer, at, bar, exported, reader, seen, faults>>

CloseTmp(e) ==
    /\ Exporting(e, "close")
    /\ tmp' = [tmp EXCEPT ![Target(e)] = bar[e]]
    /\ writer' = [writer EXCEPT ![Target(e)] = NoEa]
    /\ step' = [step EXCEPT ![e] = "move"]
    /\ UNCHANGED <<now, final, at, bar, exported, reader, seen, faults>>

\* Faulty: the .tmp is opened so that others may move it.
ReplaceableWhileOpen(f) == tmp[f] # NoText /\ ~Held(f)

\* MoveFileExW succeeds.
Replaceable(f) == tmp[f] # NoText /\ writer[f] = NoEa /\ ~Held(f)

\* The move, and on to the next file, or the end of the export.
Replace(e) ==
    /\ Exporting(e, "move") /\ Replaceable(Target(e))
    /\ final' = [final EXCEPT ![Target(e)] = tmp[Target(e)]]
    /\ tmp' = [tmp EXCEPT ![Target(e)] = NoText]
    /\ at' = [at EXCEPT ![e] = After[at[e]]] /\ step' = [step EXCEPT ![e] = "open"]
    /\ IF at'[e] = "none"
         THEN exported' = [exported EXCEPT ![e] = bar[e]] /\ bar' = [bar EXCEPT ![e] = 0]
         ELSE UNCHANGED <<exported, bar>>
    /\ seen' = IF pc = "idle" THEN seen
               ELSE [seen EXCEPT ![Target(e)] = @ \cup {tmp[Target(e)]}]
    /\ UNCHANGED <<now, writer, reader, faults>>

\* Somebody is in the way: OnTick returns, the next tick starts again.
ExportFails(e) ==
    /\ \/ Exporting(e, "open") /\ writer[Target(e)] # NoEa
       \/ Exporting(e, "move") /\ ~Replaceable(Target(e))
    /\ at' = [at EXCEPT ![e] = "none"] /\ step' = [step EXCEPT ![e] = "open"]
    /\ bar' = [bar EXCEPT ![e] = 0]
    /\ UNCHANGED <<now, files, exported, reader, seen, faults>>

\* A write, flush or close fails: OnTick returns, and the .tmp stays, half or whole.
\* CloseHandle is taken to release the handle even then.
WriteFails(e) ==
    /\ faults < MaxFaults /\ faults' = faults + 1
    /\ Exporting(e, "close")
    /\ tmp' \in {[tmp EXCEPT ![Target(e)] = content] : content \in {HalfText, bar[e]}}
    /\ writer' = [writer EXCEPT ![Target(e)] = NoEa]
    /\ at' = [at EXCEPT ![e] = "none"] /\ step' = [step EXCEPT ![e] = "open"]
    /\ bar' = [bar EXCEPT ![e] = 0]
    /\ UNCHANGED <<now, final, exported, reader, seen>>

\* The EA ends in the middle of an export and is started again.
EaStops(e) ==
    /\ faults < MaxFaults /\ faults' = faults + 1
    /\ at[e] # "none"
    /\ at' = [at EXCEPT ![e] = "none"] /\ step' = [step EXCEPT ![e] = "open"]
    /\ writer' = [f \in File |-> IF writer[f] = e THEN NoEa ELSE writer[f]]
    /\ bar' = [bar EXCEPT ![e] = 0] /\ exported' = [exported EXCEPT ![e] = 0]
    /\ UNCHANGED <<now, final, tmp, reader, seen>>

(***************************************************************************)
(* The reader                                                              *)
(***************************************************************************)
Current == FileOf(kind, instance)

\* run_runtime_cycles
BeginPass ==
    /\ pc = "idle"
    /\ pc' = "load"
    /\ passStart' = now
    /\ seen' = [f \in File |-> {final[f]}]
    /\ UNCHANGED <<now, files, eas, instance, kind, attempt, text, cache, loaded, faults>>

EndCycle ==
    /\ loaded' = NothingLoaded /\ kind' = "market" /\ attempt' = 0 /\ text' = NoText
    /\ UNCHANGED <<now, files, eas, faults>>

EndPass ==
    /\ pc' = "idle" /\ instance' = 1 /\ passStart' = 0
    /\ seen' = [f \in File |-> {}]

\* Faulty: the cache outlives the pass.
NextInstanceKeepsCache ==
    /\ EndCycle /\ UNCHANGED cache
    /\ IF instance = NumEas
         THEN EndPass
         ELSE pc' = "load" /\ instance' = instance + 1 /\ UNCHANGED <<passStart, seen>>

\* The end of a cycle, which may be the end of the pass and of its cache.
NextInstance ==
    /\ EndCycle
    /\ IF instance = NumEas
         THEN EndPass /\ cache' = [f \in File |-> NoEntry]
         ELSE /\ pc' = "load" /\ instance' = instance + 1
              /\ UNCHANGED <<cache, passStart, seen>>

Load(content) ==
    /\ loaded' = [loaded EXCEPT ![kind] = content]
    /\ IF After[kind] = "none"
         THEN pc' = "judge" /\ UNCHANGED kind
         ELSE pc' = "load" /\ kind' = After[kind]
    /\ attempt' = 0 /\ text' = NoText

\* should_reload compares the cached text with the hash of that same text: a market
\* file that has changed is not read again either.
TrustsHash == kind = "market"

\* An unchanged file is not read again.
CacheHit ==
    /\ cache[Current].text # NoText /\ final[Current] # NoText
    /\ TrustsHash \/ cache[Current].modified = final[Current]

LoadCached ==
    /\ pc = "load" /\ attempt = 0 /\ CacheHit
    /\ Load(cache[Current].text)
    /\ cache' = [cache EXCEPT ![Current].modified = final[Current]]
    /\ UNCHANGED <<now, files, eas, instance, passStart, seen, faults>>

\* _atomic_read_text_once, up to the read
Ready(f) == tmp[f] = NoText /\ final[f] # NoText

\* A loader that reads the file.
Reading == pc = "load" /\ (attempt > 0 \/ ~CacheHit)

CheckFile ==
    /\ Reading /\ Ready(Current)
    /\ pc' = "open"
    /\ UNCHANGED <<now, files, eas, instance, kind, attempt, text, cache, loaded, passStart,
                   seen, faults>>

\* run_with_retry
Retry ==
    /\ Reading /\ ~Ready(Current) /\ attempt < RetryMax
    /\ attempt' = attempt + 1
    /\ UNCHANGED <<now, files, eas, pc, instance, kind, text, cache, loaded, passStart, seen, faults>>

\* The cycle is skipped: a file cannot be read.
LoadFails ==
    /\ Reading /\ ~Ready(Current) /\ attempt = RetryMax
    /\ NextInstance

OpenFile ==
    /\ pc = "open"
    /\ pc' = "close" /\ text' = final[Current]
    /\ UNCHANGED <<now, files, eas, instance, kind, attempt, cache, loaded, passStart, seen, faults>>

CloseFile ==
    /\ pc = "close"
    /\ pc' = "stat"
    /\ UNCHANGED <<now, files, eas, instance, kind, attempt, text, cache, loaded, passStart,
                   seen, faults>>

\* The cache entry has the modification time after the read.
LoadRead ==
    /\ pc = "stat"
    /\ Load(text)
    /\ cache' = [cache EXCEPT ![Current] = [text |-> text, modified |-> final[Current]]]
    /\ UNCHANGED <<now, files, eas, instance, passStart, seen, faults>>

\* is_data_stale: the last row of a market file is the bar before that of the export.
Stale == StaleThreshold > 0 /\ passStart - (loaded.market - 1) > StaleThreshold

\* The validators accept what was loaded.
Valid == \A k \in Kind : loaded[k] # HalfText

SkipCycle ==
    /\ pc = "judge" /\ (Stale \/ ~Valid)
    /\ NextInstance

Deciding == pc = "judge" /\ ~Stale /\ Valid

\* The rest of the cycle.
Decide ==
    /\ Deciding
    /\ NextInstance

-----------------------------------------------------------------------------
EaStep(e) == OnTick(e) \/ OpenTmp(e) \/ CloseTmp(e) \/ Replace(e) \/ ExportFails(e)

Reader ==
    \/ BeginPass \/ LoadCached \/ CheckFile \/ Retry \/ LoadFails
    \/ OpenFile \/ CloseFile \/ LoadRead \/ SkipCycle \/ Decide

Next == NewBar \/ Reader \/ \E e \in Ea : EaStep(e) \/ WriteFails(e) \/ EaStops(e)

Spec == Init /\ [][Next]_vars

\* Ticks come, and passes.  Two EAs do not spoil each other's status file for ever:
\* writing one takes far less time than there is between ticks.
FairSpec ==
    /\ Spec /\ WF_vars(Reader)
    /\ \A e \in Ea : WF_vars(EaStep(e)) /\ SF_vars(at[e] = "status" /\ Replace(e))

-----------------------------------------------------------------------------
\* Every variable keeps its type; an EA that has a .tmp open is writing it.
TypeOK ==
    /\ now \in Time /\ faults \in 0..MaxFaults /\ passStart \in 0..now
    /\ final \in [File -> Text] /\ tmp \in [File -> Text]
    /\ at \in [Ea -> Kind \cup {"none"}] /\ step \in [Ea -> {"open", "close", "move"}]
    /\ bar \in [Ea -> 0..now] /\ exported \in [Ea -> 0..now]
    /\ \A f \in File : writer[f] # NoEa => Exporting(writer[f], "close") /\ Target(writer[f]) = f
    /\ pc \in {"idle", "load", "open", "close", "stat", "judge"}
    /\ instance \in Ea /\ kind \in Kind /\ attempt \in 0..RetryMax /\ text \in Text
    /\ cache \in [File -> [text : Text, modified : Text]] /\ loaded \in [Kind -> Text]
    /\ seen \in [File -> SUBSET Text]

\* However the EAs of an account interleave, a file is replaced by half a text only if
\* it is the shared one and an EA was stopped while it wrote, or failed to write and went
\* on: another EA, about to move its own text, moves the half one.  What only one EA
\* writes is always whole, since that EA writes its .tmp anew before it moves it.
WholeFiles ==
    \A k \in Kind, e \in Ea :
        final[FileOf(k, e)] = HalfText => k = "status" /\ faults > 0

\* What a cycle decides on was, whole, in the files at some moment of its own pass:
\* neither a cache that trusts its own hash, nor a modification time taken after the
\* read, nor half a text, gets to a decision.
DecidesOnThisPass ==
    Deciding => \A k \in Kind : loaded[k] \in seen[FileOf(k, instance)] \ {HalfText}

\* The .tmp of an export that the reader made fail keeps the reader away, and an open
\* file keeps the EA from replacing it; yet neither starves the other: as long as the
\* last bar stays the last one, each instance decides on it again and again.
LastBarDecided ==
    \A e \in Ea :
        []<>(now = MaxTime => Deciding /\ instance = e /\ loaded.market = MaxTime)
=============================================================================
