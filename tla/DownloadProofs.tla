----------------------------- MODULE DownloadProofs -----------------------------
(***************************************************************************)
(* What Download keeps and implements, for any number of calls, messages,  *)
(* output files, crashes and changes by the user.                          *)
(***************************************************************************)
EXTENDS Download, TLAPS

At == {"idle", "stat", "inspect", "fetch", "save", "write", "rename", "place", "open",
       "copy", "placed", "done"}

CallRecord == [at : At, msg : Msg \union {None}, out : Output \union {None}, got : Content]

Types ==
    /\ cache \in [Msg -> Content] /\ temp \in [Call -> Content]
    /\ output \in [Output -> Content] /\ from \in [Output -> Msg \union Call \union {None}]
    /\ call \in [Call -> CallRecord]
    /\ crashes \in Nat /\ userSteps \in Nat /\ crashes + userSteps <= MaxTrouble

\* The cache file of a message was written for it; short of a crash it is whole.
CacheOK == \A m \in Msg :
    /\ cache[m] \in {m, "missing", "partial", "users"}
    /\ crashes = 0 => cache[m] # "partial"

\* A file with a second name is there under both; a file being filled is its call's;
\* an output on the cache's device is whole.
OutputOK == \A o \in Output :
    /\ from[o] \in Msg => output[o] = cache[from[o]] /\ cache[from[o]] # "missing"
    /\ from[o] \in Call => call[from[o]].at = "copy" /\ call[from[o]].out = o
    /\ crashes = 0 /\ o \notin Abroad => output[o] # "partial"

\* What a call may rely on at each step.
StepOK(c) ==
    /\ call[c].at \notin {"idle", "done"} => call[c].msg \in Msg
    /\ call[c].at \in {"open", "copy"} => call[c].out \in Abroad
    /\ call[c].at = "rename" => temp[c] = call[c].msg
    /\ call[c].at = "place" => cache[call[c].msg] # "missing"
    /\ crashes = 0 /\ temp[c] # "missing" => call[c].at \in {"write", "rename"}

\* What a caller without an output file sees, unless the user wrote to a file.
SeenOK(c) == userSteps = 0 =>
    /\ call[c].at = "place" => cache[call[c].msg] = call[c].msg
    /\ call[c].at = "placed" /\ call[c].out = None => cache[call[c].msg] = call[c].msg
    /\ call[c].at = "done" => call[c].got = call[c].msg

Inv == Types /\ CacheOK /\ OutputOK /\ \A c \in Call : StepOK(c) /\ SeenOK(c)

-------------------------------------------------------------------------------

\* The invariant says what the runs check.
LEMMA InvImplies == Inv => TypeOK /\ ReadBackIsTheirs /\ DiskIsSound
<1>1. Inv => TypeOK
  BY DownloadAssumption DEF Inv, Types, OutputOK, TypeOK
<1>2. Inv => ReadBackIsTheirs
  BY DEF Inv, SeenOK, ReadBackIsTheirs
<1>3. Inv => DiskIsSound
  BY DEF Inv, OutputOK, StepOK, DiskIsSound, LinkedOutputIsWhole, TempsAreRemoved
<1> QED
  BY <1>1, <1>2, <1>3

LEMMA InvInitially == Init => Inv
BY DownloadAssumption
DEF Init, Inv, Types, CacheOK, OutputOK, StepOK, SeenOK, Idle, CallRecord, At, Content

\* A step of one call keeps what another relies on if it leaves the cache alone.
LEMMA OthersKeep ==
  ASSUME Inv, NEW c \in Call, NEW d \in Call \ {c}, UNCHANGED <<cache, outside>>,
         call'[d] = call[d], temp'[d] = temp[d]
  PROVE  StepOK(d)' /\ SeenOK(d)'
BY DEF Inv, StepOK, SeenOK, outside

\* Going on to a step, and failing, keep the type of the calls.
LEMMA MovesKeepType ==
  ASSUME Types, NEW c \in Call, Fail(c) \/ \E at \in At : Goto(c, at)
  PROVE  /\ call' \in [Call -> CallRecord]
         /\ \A d \in Call \ {c} : call'[d] = call[d]
         /\ call'[c] = Idle \/ \E at \in At : call'[c] = [call[c] EXCEPT !.at = at]
<1>1. CASE Fail(c)
  BY <1>1 DEF Fail, Types, Idle, CallRecord, At, Content
<1>2. ASSUME NEW at \in At, Goto(c, at)
      PROVE  call' = [call EXCEPT ![c] = [call[c] EXCEPT !.at = at]]
  BY <1>2 DEF Goto, Types, CallRecord
<1>3. CASE \E at \in At : Goto(c, at)
  BY <1>2, <1>3 DEF Types, CallRecord
<1> QED
  BY <1>1, <1>3

\* So are the files, by a step that leaves output and cache files alone and is not
\* that of a copy.
LEMMA OutputsKeep ==
  ASSUME Inv, NEW c \in Call, call[c].at # "copy", UNCHANGED <<cache, output, from, crashes>>,
         \A d \in Call \ {c} : call'[d] = call[d]
  PROVE  OutputOK'
<1>. SUFFICES ASSUME NEW o \in Output
              PROVE  (from[o] \in Call => call'[from[o]].at = "copy" /\ call'[from[o]].out = o)
     BY DEF Inv, OutputOK
<1> QED
  BY DEF Inv, OutputOK

\* The parts of the invariant after a step of one call.
LEMMA Together ==
  ASSUME NEW c \in Call, Types', CacheOK', OutputOK', StepOK(c)', SeenOK(c)',
         \A d \in Call \ {c} : StepOK(d)' /\ SeenOK(d)'
  PROVE  Inv'
BY DEF Inv

\* Every step of a call keeps the invariant.
LEMMA StepKeepsInv ==
  ASSUME Inv, NEW c \in Call, DownloadStep(c)
  PROVE  Inv'
<1>1. CASE StatOutput(c)
  <2>0. Fail(c) \/ \E at \in At : Goto(c, at)
    BY <1>1 DEF StatOutput, At
  <2>1. Types'
    BY <1>1, <2>0, MovesKeepType DEF StatOutput, Inv, Types, StepOK, files, outside, Content
  <2>2. CacheOK'
    BY <1>1 DEF StatOutput, Inv, CacheOK, StepOK, Types, files, outside
  <2>3. OutputOK'
    BY <1>1, OutputsKeep DEF StatOutput, Inv, Types, files, outside, Goto, Fail
  <2>4. StepOK(c)' /\ SeenOK(c)'
    BY <1>1, DownloadAssumption DEF StatOutput, Inv, Types, CacheOK, OutputOK, CallRecord, StepOK, SeenOK, files, outside, Goto, Fail, Idle
  <2>5. \A d \in Call \ {c} : StepOK(d)' /\ SeenOK(d)'
    BY <1>1, OthersKeep DEF StatOutput, Inv, Types, files, outside, Goto, Fail
  <2> QED
    BY <2>1, <2>2, <2>3, <2>4, <2>5, Together
<1>2. CASE InspectCache(c)
  <2>0. Fail(c) \/ \E at \in At : Goto(c, at)
    BY <1>2 DEF InspectCache, At
  <2>1. Types'
    BY <1>2, <2>0, MovesKeepType DEF InspectCache, Inv, Types, StepOK, files, outside, Content
  <2>2. CacheOK'
    BY <1>2 DEF InspectCache, Inv, CacheOK, StepOK, Types, files, outside
  <2>3. OutputOK'
    BY <1>2, OutputsKeep DEF InspectCache, Inv, Types, files, outside, Goto, Fail
  <2>4. StepOK(c)' /\ SeenOK(c)'
    BY <1>2, DownloadAssumption DEF InspectCache, Inv, Types, CacheOK, OutputOK, CallRecord, StepOK, SeenOK, files, outside, Goto, Fail, Idle
  <2>5. \A d \in Call \ {c} : StepOK(d)' /\ SeenOK(d)'
    BY <1>2, OthersKeep DEF InspectCache, Inv, Types, files, outside, Goto, Fail
  <2> QED
    BY <2>1, <2>2, <2>3, <2>4, <2>5, Together
<1>3. CASE Fetch(c)
  <2>0. Fail(c) \/ \E at \in At : Goto(c, at)
    BY <1>3 DEF Fetch, At
  <2>1. Types'
    BY <1>3, <2>0, MovesKeepType DEF Fetch, Inv, Types, StepOK, files, outside, Content
  <2>2. CacheOK'
    BY <1>3 DEF Fetch, Inv, CacheOK, StepOK, Types, files, outside
  <2>3. OutputOK'
    BY <1>3, OutputsKeep DEF Fetch, Inv, Types, files, outside, Goto, Fail
  <2>4. StepOK(c)' /\ SeenOK(c)'
    BY <1>3, DownloadAssumption DEF Fetch, Inv, Types, CacheOK, OutputOK, CallRecord, StepOK, SeenOK, files, outside, Goto, Fail, Idle
  <2>5. \A d \in Call \ {c} : StepOK(d)' /\ SeenOK(d)'
    BY <1>3, OthersKeep DEF Fetch, Inv, Types, files, outside, Goto, Fail
  <2> QED
    BY <2>1, <2>2, <2>3, <2>4, <2>5, Together
<1>4. CASE CreateTemp(c)
  <2>0. Fail(c) \/ \E at \in At : Goto(c, at)
    BY <1>4 DEF CreateTemp, At
  <2>1. Types'
    BY <1>4, <2>0, MovesKeepType DEF CreateTemp, Inv, Types, StepOK, files, outside, Content
  <2>2. CacheOK'
    BY <1>4 DEF CreateTemp, Inv, CacheOK, StepOK, Types, files, outside
  <2>3. OutputOK'
    BY <1>4, OutputsKeep DEF CreateTemp, Inv, Types, files, outside, Goto, Fail
  <2>4. StepOK(c)' /\ SeenOK(c)'
    BY <1>4, DownloadAssumption DEF CreateTemp, Inv, Types, CacheOK, OutputOK, CallRecord, StepOK, SeenOK, files, outside, Goto, Fail, Idle
  <2>5. \A d \in Call \ {c} : StepOK(d)' /\ SeenOK(d)'
    BY <1>4, OthersKeep DEF CreateTemp, Inv, Types, files, outside, Goto, Fail
  <2> QED
    BY <2>1, <2>2, <2>3, <2>4, <2>5, Together
<1>5. CASE WriteTemp(c)
  <2>0. Fail(c) \/ \E at \in At : Goto(c, at)
    BY <1>5 DEF WriteTemp, At
  <2>1. Types'
    BY <1>5, <2>0, MovesKeepType DEF WriteTemp, Inv, Types, StepOK, files, outside, Content
  <2>2. CacheOK'
    BY <1>5 DEF WriteTemp, Inv, CacheOK, StepOK, Types, files, outside
  <2>3. OutputOK'
    BY <1>5, OutputsKeep DEF WriteTemp, Inv, Types, files, outside, Goto, Fail
  <2>4. StepOK(c)' /\ SeenOK(c)'
    BY <1>5, DownloadAssumption DEF WriteTemp, Inv, Types, CacheOK, OutputOK, CallRecord, StepOK, SeenOK, files, outside, Goto, Fail, Idle
  <2>5. \A d \in Call \ {c} : StepOK(d)' /\ SeenOK(d)'
    BY <1>5, OthersKeep DEF WriteTemp, Inv, Types, files, outside, Goto, Fail
  <2> QED
    BY <2>1, <2>2, <2>3, <2>4, <2>5, Together
<1>6. CASE Rename(c)
  <2>0. Fail(c) \/ \E at \in At : Goto(c, at)
    BY <1>6 DEF Rename, At
  <2>1. Types'
    BY <1>6, <2>0, MovesKeepType DEF Rename, Inv, Types, StepOK, files, outside, Content
  <2>2. CacheOK'
    BY <1>6, DownloadAssumption DEF Content, Rename, Inv, CacheOK, StepOK, Types, files, outside
  <2>3. OutputOK'
    BY <1>6, DownloadAssumption DEF Rename, Inv, OutputOK, CacheOK, StepOK, Types, CallRecord, files, outside, Goto, Fail, Idle
  <2>4. StepOK(c)' /\ SeenOK(c)'
    BY <1>6, DownloadAssumption DEF Rename, Inv, Types, CacheOK, OutputOK, CallRecord, StepOK, SeenOK, files, outside, Goto, Fail, Idle
  <2>5. \A d \in Call \ {c} : StepOK(d)' /\ SeenOK(d)'
    BY <1>6, DownloadAssumption DEF Rename, Inv, Types, CallRecord, StepOK, SeenOK, outside, Goto, Fail
  <2> QED
    BY <2>1, <2>2, <2>3, <2>4, <2>5, Together
<1>7. CASE ReturnCached(c)
  <2>0. Fail(c) \/ \E at \in At : Goto(c, at)
    BY <1>7 DEF ReturnCached, At
  <2>1. Types'
    BY <1>7, <2>0, MovesKeepType DEF ReturnCached, Inv, Types, StepOK, files, outside, Content
  <2>2. CacheOK'
    BY <1>7 DEF ReturnCached, Inv, CacheOK, StepOK, Types, files, outside
  <2>3. OutputOK'
    BY <1>7, OutputsKeep DEF ReturnCached, Inv, Types, files, outside, Goto, Fail
  <2>4. StepOK(c)' /\ SeenOK(c)'
    BY <1>7, DownloadAssumption DEF ReturnCached, Inv, Types, CacheOK, OutputOK, CallRecord, StepOK, SeenOK, files, outside, Goto, Fail, Idle
  <2>5. \A d \in Call \ {c} : StepOK(d)' /\ SeenOK(d)'
    BY <1>7, OthersKeep DEF ReturnCached, Inv, Types, files, outside, Goto, Fail
  <2> QED
    BY <2>1, <2>2, <2>3, <2>4, <2>5, Together
<1>8. CASE LinkOutput(c)
  <2>0. Fail(c) \/ \E at \in At : Goto(c, at)
    BY <1>8 DEF LinkOutput, At
  <2>1. Types'
    BY <1>8, <2>0, MovesKeepType DEF LinkOutput, Inv, Types, StepOK, files, outside, Content
  <2>2. CacheOK'
    BY <1>8 DEF LinkOutput, Inv, CacheOK, StepOK, Types, files, outside
  <2>3. OutputOK'
    BY <1>8, DownloadAssumption DEF LinkOutput, Inv, OutputOK, CacheOK, StepOK, Types, CallRecord, files, outside, Goto, Fail, Idle
  <2>4. StepOK(c)' /\ SeenOK(c)'
    BY <1>8, DownloadAssumption DEF LinkOutput, Inv, Types, CacheOK, OutputOK, CallRecord, StepOK, SeenOK, files, outside, Goto, Fail, Idle
  <2>5. \A d \in Call \ {c} : StepOK(d)' /\ SeenOK(d)'
    BY <1>8, OthersKeep DEF LinkOutput, Inv, Types, files, outside, Goto, Fail
  <2> QED
    BY <2>1, <2>2, <2>3, <2>4, <2>5, Together
<1>9. CASE OpenOutput(c)
  <2>0. Fail(c) \/ \E at \in At : Goto(c, at)
    BY <1>9 DEF OpenOutput, At
  <2>1. Types'
    BY <1>9, <2>0, MovesKeepType DEF OpenOutput, Inv, Types, StepOK, files, outside, Content
  <2>2. CacheOK'
    BY <1>9 DEF OpenOutput, Inv, CacheOK, StepOK, Types, files, outside
  <2>3. OutputOK'
    BY <1>9, DownloadAssumption DEF OpenOutput, Inv, OutputOK, CacheOK, StepOK, Types, CallRecord, files, outside, Goto, Fail, Idle
  <2>4. StepOK(c)' /\ SeenOK(c)'
    BY <1>9, DownloadAssumption DEF OpenOutput, Inv, Types, CacheOK, OutputOK, CallRecord, StepOK, SeenOK, files, outside, Goto, Fail, Idle
  <2>5. \A d \in Call \ {c} : StepOK(d)' /\ SeenOK(d)'
    BY <1>9, OthersKeep DEF OpenOutput, Inv, Types, files, outside, Goto, Fail
  <2> QED
    BY <2>1, <2>2, <2>3, <2>4, <2>5, Together
<1>10. CASE Copy(c)
  <2>0. Fail(c) \/ \E at \in At : Goto(c, at)
    BY <1>10 DEF Copy, At
  <2>1. Types'
    BY <1>10, <2>0, MovesKeepType DEF Copy, Inv, Types, StepOK, files, outside, Content
  <2>2. CacheOK'
    BY <1>10 DEF Copy, Inv, CacheOK, StepOK, Types, files, outside
  <2>3. OutputOK'
    BY <1>10, DownloadAssumption DEF Copy, Inv, OutputOK, CacheOK, StepOK, Types, CallRecord, files, outside, Goto, Fail, Idle
  <2>4. StepOK(c)' /\ SeenOK(c)'
    BY <1>10, DownloadAssumption DEF Copy, Inv, Types, CacheOK, OutputOK, CallRecord, StepOK, SeenOK, files, outside, Goto, Fail, Idle
  <2>5. \A d \in Call \ {c} : StepOK(d)' /\ SeenOK(d)'
    BY <1>10, OthersKeep DEF Copy, Inv, Types, files, outside, Goto, Fail
  <2> QED
    BY <2>1, <2>2, <2>3, <2>4, <2>5, Together
<1>11. CASE ReadBack(c)
  <2>1. Types'
    BY <1>11 DEF ReadBack, Inv, Types, StepOK, files, outside, Idle, CallRecord, At, Content
  <2>2. CacheOK'
    BY <1>11 DEF ReadBack, Inv, CacheOK, StepOK, Types, files, outside
  <2>3. OutputOK'
    BY <1>11, OutputsKeep DEF ReadBack, Inv, Types, files, outside, Goto, Fail
  <2>4. StepOK(c)' /\ SeenOK(c)'
    BY <1>11, DownloadAssumption DEF ReadBack, Inv, Types, CacheOK, OutputOK, CallRecord, StepOK, SeenOK, files, outside, Goto, Fail, Idle
  <2>5. \A d \in Call \ {c} : StepOK(d)' /\ SeenOK(d)'
    BY <1>11, OthersKeep DEF ReadBack, Inv, Types, files, outside, Goto, Fail
  <2> QED
    BY <2>1, <2>2, <2>3, <2>4, <2>5, Together
<1> QED
  BY <1>1, <1>2, <1>3, <1>4, <1>5, <1>6, <1>7, <1>8, <1>9, <1>10, <1>11 DEF DownloadStep

\* So does a new call, which has no file of its own and no promise to rely on.
LEMMA StartKeepsInv ==
  ASSUME Inv, NEW c \in Call, NEW m \in Msg, NEW o \in Output \union {None}, Start(c, m, o)
  PROVE  Inv'
<1>1. call[c].at \in {"idle", "done"}
  BY DEF Start, Running
<1>. DEFINE fresh == [at |-> "stat", msg |-> m, out |-> o, got |-> "missing"]
<1>2. /\ call' \in [Call -> CallRecord]
      /\ \A d \in Call \ {c} : call'[d] = call[d]
      /\ call'[c] = Idle \/ call'[c] = fresh
  <2>1. CASE call' = [call EXCEPT ![c] = fresh]
    BY <2>1 DEF Inv, Types, CallRecord, At, Content
  <2>2. CASE Fail(c)
    BY <2>2, MovesKeepType DEF Inv, Fail, Types
  <2> QED
    BY <2>1, <2>2 DEF Start
<1>3. Types'
  BY <1>2 DEF Start, Inv, Types, files, outside
<1>4. CacheOK'
  BY DEF Start, Inv, CacheOK, files, outside
<1>5. OutputOK'
  BY <1>1, <1>2, OutputsKeep DEF Start, files, outside
<1>6. StepOK(c)' /\ SeenOK(c)'
  BY <1>1, <1>2 DEF Start, Inv, StepOK, SeenOK, Idle, files, outside
<1>7. \A d \in Call \ {c} : StepOK(d)' /\ SeenOK(d)'
  BY <1>2, OthersKeep DEF Start, files, outside
<1> QED
  BY <1>3, <1>4, <1>5, <1>6, <1>7, Together

\* After a crash no call is at work, and nothing was promised of the files but that
\* the names of a linked file agree.
LEMMA CrashKeepsInv == Inv /\ Crash => Inv'
<1>. SUFFICES ASSUME Inv, Crash PROVE Inv'
  OBVIOUS
<1>. PICK torn \in SUBSET Msg, cut \in SUBSET {o \in Output : from[o] \notin Msg} :
       /\ cache' = [m \in Msg |-> IF m \in torn /\ cache[m] = m THEN "partial" ELSE cache[m]]
       /\ output' = [o \in Output |->
             IF output[o] \in Msg /\ (from[o] \in torn \/ o \in cut) THEN "partial" ELSE output[o]]
  BY DEF Crash
<1>1. /\ call' = [c \in Call |-> IF Running(c) THEN Idle ELSE call[c]]
      /\ from' = [o \in Output |-> IF from[o] \in Call THEN None ELSE from[o]]
      /\ crashes' = crashes + 1 /\ crashes' # 0 /\ UNCHANGED <<temp, userSteps>>
      /\ crashes' \in Nat /\ crashes' + userSteps' <= MaxTrouble
  BY DownloadAssumption DEF Crash, Inv, Types
<1>2. call' \in [Call -> CallRecord]
  BY <1>1 DEF Inv, Types, Idle, CallRecord, At, Content
<1>3. cache' \in [Msg -> Content] /\ output' \in [Output -> Content]
  BY DEF Inv, Types, Content
<1>4. from' \in [Output -> Msg \union Call \union {None}]
  BY <1>1 DEF Inv, Types
<1>5. Types'
  BY <1>1, <1>2, <1>3, <1>4 DEF Inv, Types
<1>6. CacheOK'
  BY <1>1 DEF Inv, CacheOK
<1>7. OutputOK'
  BY <1>1, DownloadAssumption DEF Inv, Types, CacheOK, OutputOK
<1>8. ASSUME NEW c \in Call PROVE StepOK(c)' /\ SeenOK(c)'
  BY <1>1 DEF Inv, Types, StepOK, SeenOK, Running, Idle, CallRecord
<1> QED
  BY <1>5, <1>6, <1>7, <1>8 DEF Inv

\* What the user writes shows under every name of the file.
LEMMA UserKeepsInv ==
  ASSUME Inv, NEW o \in Output, UserStep(o)
  PROVE  Inv'
<1>1. /\ userSteps' = userSteps + 1 /\ userSteps' # 0 /\ UNCHANGED <<temp, call, crashes>>
      /\ userSteps' \in Nat /\ crashes' + userSteps' <= MaxTrouble
  BY DownloadAssumption DEF UserStep, Inv, Types
<1>2. CASE /\ output' = [output EXCEPT ![o] = "missing"] /\ from' = [from EXCEPT ![o] = None]
           /\ UNCHANGED cache
  <2>1. Types' /\ CacheOK'
    BY <1>1, <1>2 DEF Inv, Types, CacheOK, Content
  <2>2. OutputOK'
    BY <1>1, <1>2, DownloadAssumption DEF Inv, Types, OutputOK
  <2>3. ASSUME NEW c \in Call PROVE StepOK(c)' /\ SeenOK(c)'
    BY <1>1, <1>2 DEF Inv, StepOK, SeenOK
  <2> QED
    BY <2>1, <2>2, <2>3 DEF Inv
<1>3. CASE /\ output' = [p \in Output |->
                 IF p = o \/ (from[o] \in Msg /\ from[p] = from[o]) THEN "users" ELSE output[p]]
           /\ cache' = [n \in Msg |-> IF n = from[o] THEN "users" ELSE cache[n]]
           /\ from' = [from EXCEPT ![o] = IF from[o] \in Call THEN None ELSE from[o]]
  <2>1. Types'
    BY <1>1, <1>3 DEF Inv, Types, Content
  <2>2. CacheOK'
    BY <1>1, <1>3 DEF Inv, CacheOK
  <2>3. OutputOK'
    BY <1>1, <1>3, DownloadAssumption DEF Inv, Types, OutputOK
  <2>4. ASSUME NEW c \in Call PROVE StepOK(c)' /\ SeenOK(c)'
    BY <1>1, <1>3 DEF Inv, Types, StepOK, SeenOK, CallRecord
  <2> QED
    BY <2>1, <2>2, <2>3, <2>4 DEF Inv
<1> QED
  BY <1>2, <1>3 DEF UserStep

LEMMA InvInductive == Inv /\ [Next]_vars => Inv'
<1>1. Inv /\ Next => Inv'
  BY StepKeepsInv, StartKeepsInv, CrashKeepsInv, UserKeepsInv DEF Next
<1>2. Inv /\ UNCHANGED vars => Inv'
  BY DEF vars, Inv, Types, CacheOK, OutputOK, StepOK, SeenOK
<1> QED
  BY <1>1, <1>2

LEMMA InvAlways == Spec => []Inv
BY InvInitially, InvInductive, PTL DEF Spec

\* Every state of the files and calls is of its type; a linked file has one content.
THEOREM DownloadTypeCorrect == Spec => []TypeOK
BY InvAlways, InvImplies, PTL

\* A caller that named no output file reads the bytes of its message, whatever
\* the other calls replace and however often the machine goes down.
THEOREM DownloadReadsItsOwn == Spec => []ReadBackIsTheirs
BY InvAlways, InvImplies, PTL

\* Without a crash no call leaves a torn output on the cache's device or a stray
\* temporary file, at whichever step it fails.
THEOREM DownloadLeavesNoLitter == Spec => []DiskIsSound
BY InvAlways, InvImplies, PTL

-------------------------------------------------------------------------------
(* The calls implement MediaFile.                                          *)

\* The cache file as MediaFile sees it, before and after a step.
FileView(m) ==
    /\ CachedFile[m] = "whole" <=> cache[m] = m
    /\ CachedFile[m] = "none" <=> cache[m] = "missing"
    /\ CachedFile[m] = "damaged" <=> cache[m] \in {"partial", "users"}
    /\ CachedFile[m] \in MF!File

LEMMA FileSeen == ASSUME Inv, NEW m \in Msg PROVE FileView(m)
BY DownloadAssumption DEF FileView, Inv, CacheOK, CachedFile, MF!File

LEMMA FileSeenNext == ASSUME Inv', NEW m \in Msg PROVE FileView(m)'
BY DownloadAssumption DEF FileView, Inv, CacheOK, CachedFile, MF!File

\* A call that goes on, or fails, as MediaFile sees it.
LEMMA MoveSeen ==
  ASSUME Inv, NEW c \in Call, NEW at \in At, Goto(c, at)
  PROVE  Progress' = [Progress EXCEPT ![c].is = Stage(at)]
BY DEF Inv, Types, CallRecord, Goto, Progress

LEMMA FailSeen ==
  ASSUME Inv, NEW c \in Call, Fail(c)
  PROVE  Progress' = [Progress EXCEPT ![c] = MF!Idle]
BY DEF Inv, Types, CallRecord, Fail, Idle, Progress, MF!Idle, Stage

LEMMA FileKept == UNCHANGED cache => UNCHANGED CachedFile
BY DEF CachedFile

LEMMA Stages ==
  /\ \A at \in {"stat", "inspect", "fetch", "save", "write", "rename"} : Stage(at) = "asked"
  /\ \A at \in {"place", "open", "copy"} : Stage(at) = "found"
  /\ \A at \in {"placed", "done"} : Stage(at) = "returned"
  /\ Stage("idle") = "idle"
BY DEF Stage

LEMMA StageNow ==
  ASSUME Inv, NEW c \in Call
  PROVE  /\ Progress[c].is = Stage(call[c].at)
         /\ Progress[c].named <=> call[c].out # None
         /\ call[c].msg \in Msg => Progress[c].of = call[c].msg
BY DownloadAssumption DEF Progress

\* Initial states are initial.
LEMMA MapsInit == Init => MF!Init
<1>. SUFFICES ASSUME Init PROVE MF!Init
  OBVIOUS
<1>1. CachedFile = [m \in Msg |-> "none"]
  <2>1. ASSUME NEW m \in Msg PROVE cache[m] = "missing"
    BY DEF Init
  <2>2. ASSUME NEW m \in Msg PROVE CachedFile[m] = "none"
    BY <2>1, InvInitially, FileSeen DEF FileView
  <2> QED
    BY <2>2 DEF CachedFile
<1>2. Progress = [c \in Call |-> MF!Idle]
  BY DEF Init, Progress, Stage, Idle, MF!Idle
<1> QED
  BY <1>1, <1>2 DEF MF!Init

\* A failing call gives up.
LEMMA MapsFail ==
  ASSUME Inv, NEW c \in Call, Fail(c), call[c].at \notin {"idle", "placed", "done"},
         UNCHANGED cache
  PROVE  MF!Next
<1>1. Progress[c].is # "returned"
  BY StageNow, Stages DEF Inv, Types, CallRecord, At
<1>2. MF!GiveUp(c)
  BY <1>1, FailSeen, FileKept DEF MF!GiveUp
<1> QED
  BY <1>2 DEF MF!Next

\* A call that goes on without changing what it is seen to do stutters.
LEMMA MapsStutter ==
  ASSUME Inv, NEW c \in Call, NEW at \in At, Goto(c, at), Stage(at) = Stage(call[c].at),
         UNCHANGED cache
  PROVE  UNCHANGED MF!fvars
<1>1. [Progress EXCEPT ![c].is = Stage(at)] = Progress
  BY StageNow DEF Progress
<1> QED
  BY <1>1, MoveSeen, FileKept DEF MF!fvars

\* A call that is satisfied returns the copy, or a file at the output it named.
LEMMA MapsReturn ==
  ASSUME Inv, NEW c \in Call, Goto(c, "placed"), UNCHANGED cache,
         \/ call[c].at \in {"place", "open", "copy"}
         \/ call[c].at = "stat" /\ call[c].out # None
  PROVE  MF!Next
<1>1. Progress' = [Progress EXCEPT ![c].is = "returned"]
  BY MoveSeen DEF At, Stage
<1>2. \/ Progress[c].is = "found"
      \/ Progress[c].is = "asked" /\ Progress[c].named
  BY StageNow, Stages
<1>3. MF!Return(c)
  BY <1>1, <1>2, FileKept DEF MF!Return, MF!Move
<1> QED
  BY <1>3 DEF MF!Next

\* A call's step is one of MediaFile or a stutter.
LEMMA MapsStep ==
  ASSUME Inv, Inv', NEW c \in Call, DownloadStep(c)
  PROVE  MF!Next \/ UNCHANGED MF!fvars
<1>1. CASE StatOutput(c)
  BY <1>1, MapsReturn, MapsStutter DEF StatOutput, At, Stage, files
<1>2. CASE InspectCache(c)
  <2>1. CASE Fail(c)
    BY <1>2, <2>1, MapsFail DEF InspectCache, files
  <2>2. CASE Goto(c, "fetch")
    BY <1>2, <2>2, MapsStutter DEF InspectCache, At, Stage, files
  <2>3. CASE cache[call[c].msg] = call[c].msg /\ Goto(c, "place")
    <3>1. call[c].at = "inspect" /\ call[c].msg \in Msg /\ UNCHANGED cache
      BY <1>2 DEF InspectCache, Inv, StepOK, files
    <3>2. Progress' = [Progress EXCEPT ![c].is = "found"]
      BY <2>3, MoveSeen DEF At, Stage
    <3>3. Progress[c].is = "asked" /\ Progress[c].of = call[c].msg
      BY <1>2, <3>1, StageNow, Stages DEF InspectCache
    <3>4. MF!Find(c)
      BY <2>3, <3>1, <3>2, <3>3, FileSeen, FileKept DEF FileView, MF!Find, MF!Move
    <3> QED
      BY <3>4 DEF MF!Next
  <2> QED
    BY <1>2, <2>1, <2>2, <2>3 DEF InspectCache
<1>3. CASE Fetch(c)
  BY <1>3, MapsFail, MapsStutter DEF Fetch, At, Stage, files
<1>4. CASE CreateTemp(c)
  BY <1>4, MapsFail, MapsStutter DEF CreateTemp, At, Stage
<1>5. CASE WriteTemp(c)
  BY <1>5, MapsFail, MapsStutter DEF WriteTemp, At, Stage
<1>6. CASE Rename(c)
  <2>1. CASE Fail(c) /\ UNCHANGED cache
    BY <1>6, <2>1, MapsFail DEF Rename
  <2>2. CASE Goto(c, "place") /\ cache' = [cache EXCEPT ![call[c].msg] = temp[c]]
    <3>1. call[c].at = "rename" /\ call[c].msg \in Msg /\ temp[c] = call[c].msg
      BY <1>6 DEF Rename, Inv, StepOK
    <3>2. Progress' = [Progress EXCEPT ![c].is = "found"]
      BY <2>2, MoveSeen DEF At, Stage
    <3>3. Progress[c].is = "asked" /\ Progress[c].of = call[c].msg
      BY <3>1, StageNow, Stages
    <3>4. CachedFile' = [CachedFile EXCEPT ![call[c].msg] = "whole"]
      BY <2>2, <3>1, DownloadAssumption DEF CachedFile, Inv, Types
    <3>5. MF!Store(c)
      BY <3>2, <3>3, <3>4 DEF MF!Store, MF!Move
    <3> QED
      BY <3>5 DEF MF!Next
  <2> QED
    BY <1>6, <2>1, <2>2 DEF Rename
<1>7. CASE ReturnCached(c)
  BY <1>7, MapsReturn DEF ReturnCached, files
<1>8. CASE LinkOutput(c)
  BY <1>8, MapsReturn, MapsFail, MapsStutter DEF LinkOutput, At, Stage, files
<1>9. CASE OpenOutput(c)
  BY <1>9, MapsReturn, MapsFail, MapsStutter DEF OpenOutput, At, Stage
<1>10. CASE Copy(c)
  BY <1>10, MapsReturn, MapsFail DEF Copy
<1>11. CASE ReadBack(c)
  <2>1. UNCHANGED CachedFile
    BY <1>11, FileKept DEF ReadBack, files
  <2>2. CASE call[c].out # None
    <3>1. Progress' = [Progress EXCEPT ![c] = MF!Idle]
      BY <1>11, <2>2, FailSeen DEF ReadBack, Fail
    <3>2. MF!Damage
      BY <2>1, <3>1, FileSeen DEF FileView, MF!Damage, MF!File, Progress, CachedFile
    <3> QED
      BY <3>2 DEF MF!Next
  <2>3. CASE call[c].out = None
    <3>1. Progress' = Progress
      BY <1>11, <2>3 DEF ReadBack, Progress, Stage, Inv, Types, CallRecord
    <3> QED
      BY <2>1, <3>1 DEF MF!fvars
  <2> QED
    BY <2>2, <2>3
<1> QED
  BY <1>1, <1>2, <1>3, <1>4, <1>5, <1>6, <1>7, <1>8, <1>9, <1>10, <1>11 DEF DownloadStep

\* A new call asks; a bad path, no row or no media leaves the caller as before, or
\* forgets its last answer.
LEMMA MapsStart ==
  ASSUME Inv, NEW c \in Call, NEW m \in Msg, NEW o \in Output \union {None}, Start(c, m, o)
  PROVE  MF!Next
<1>1. UNCHANGED CachedFile /\ call[c].at \in {"idle", "done"}
  BY FileKept DEF Start, Running, files
<1>2. Progress[c].is \in {"idle", "returned"}
  BY <1>1, StageNow, Stages
<1>3. CASE call' = [call EXCEPT ![c] = [at |-> "stat", msg |-> m, out |-> o, got |-> "missing"]]
  <2>1. Progress' = [Progress EXCEPT ![c] = [of |-> m, named |-> o # None, is |-> "asked"]]
    BY <1>3, Stages, DownloadAssumption DEF Progress, Inv, Types
  <2>2. MF!Ask(c, m, o # None)
    BY <1>1, <1>2, <2>1 DEF MF!Ask
  <2> QED
    BY <2>2 DEF MF!Next
<1>4. CASE Fail(c)
  <2>1. CachedFile \in [Msg -> MF!File]
    BY FileSeen DEF FileView, CachedFile
  <2>2. MF!Damage
    BY <1>1, <1>4, <2>1, FailSeen DEF MF!Damage, Progress
  <2> QED
    BY <2>2 DEF MF!Next
<1> QED
  BY <1>3, <1>4 DEF Start

\* A crash, and what the user writes, damage whole copies only.
LEMMA MapsCrash ==
  ASSUME Inv, Inv', Crash
  PROVE  MF!Next
<1>1. /\ \A m \in Msg : cache'[m] = cache[m] \/ (cache[m] = m /\ cache'[m] = "partial")
      /\ call' = [c \in Call |-> IF Running(c) THEN Idle ELSE call[c]]
  BY DEF Crash
<1>2. CachedFile' \in [Msg -> MF!File]
  <2>1. \A m \in Msg : CachedFile'[m] \in MF!File
    BY FileSeenNext DEF FileView
  <2> QED
    BY <2>1 DEF CachedFile
<1>3. ASSUME NEW m \in Msg, CachedFile'[m] # CachedFile[m]
      PROVE  CachedFile[m] = "whole" /\ CachedFile'[m] = "damaged"
  BY <1>1, <1>3, FileSeen, FileSeenNext DEF FileView, CachedFile
<1>4. ASSUME NEW c \in Call, Progress'[c] # Progress[c]
      PROVE  Progress'[c] = MF!Idle
  BY <1>1, <1>4, Stages DEF Progress, Idle, MF!Idle
<1>5. MF!Damage
  BY <1>2, <1>3, <1>4 DEF MF!Damage, Progress
<1> QED
  BY <1>5 DEF MF!Next

LEMMA MapsUser ==
  ASSUME Inv, Inv', NEW o \in Output, UserStep(o)
  PROVE  MF!Next
<1>1. /\ UNCHANGED call
      /\ \A m \in Msg : cache'[m] = cache[m] \/ (cache[m] # "missing" /\ cache'[m] = "users")
  BY DownloadAssumption DEF UserStep, Inv, Types, OutputOK
<1>2. CachedFile' \in [Msg -> MF!File]
  <2>1. \A m \in Msg : CachedFile'[m] \in MF!File
    BY FileSeenNext DEF FileView
  <2> QED
    BY <2>1 DEF CachedFile
<1>3. ASSUME NEW m \in Msg, CachedFile'[m] # CachedFile[m]
      PROVE  CachedFile[m] = "whole" /\ CachedFile'[m] = "damaged"
  BY <1>1, <1>3, FileSeen, FileSeenNext, DownloadAssumption DEF FileView, CachedFile, Inv, CacheOK
<1>4. UNCHANGED Progress
  BY <1>1 DEF Progress
<1>5. MF!Damage
  BY <1>2, <1>3, <1>4 DEF MF!Damage, Progress
<1> QED
  BY <1>5 DEF MF!Next

\* Downloads implement the abstract file: what a caller is given was seen whole, and
\* a copy appears whole and in one step, for any number of calls and crashes.
THEOREM DownloadImplements == Spec => ImplementsMediaFile
<1>1. Inv /\ Inv' /\ [Next]_vars => [MF!Next]_(MF!fvars)
  <2>1. ASSUME Inv, Inv', Next PROVE MF!Next \/ UNCHANGED MF!fvars
    BY <2>1, MapsStep, MapsStart, MapsCrash, MapsUser DEF Next
  <2>2. ASSUME UNCHANGED vars PROVE UNCHANGED MF!fvars
    BY <2>2 DEF vars, MF!fvars, CachedFile, Progress
  <2> QED
    BY <2>1, <2>2
<1> QED
  BY <1>1, MapsInit, InvAlways, PTL DEF Spec, ImplementsMediaFile, MF!Spec

\* No call replaces or removes a file it finds at an output path; only crashes and
\* the user change it once it is complete.
THEOREM DownloadKeepsOutputs == Spec => OutputIsKept
<1>. DEFINE Kept == \A o \in Output :
         output[o] # "missing" /\ from[o] \notin Call /\ output'[o] # output[o]
         => userSteps' # userSteps \/ crashes' # crashes
<1>1. ASSUME Inv, NEW c \in Call, DownloadStep(c) PROVE Kept
  <2>1. CASE StatOutput(c) \/ InspectCache(c) \/ Fetch(c) \/ ReturnCached(c) \/ ReadBack(c)
    BY <2>1 DEF StatOutput, InspectCache, Fetch, ReturnCached, ReadBack, files
  <2>2. CASE CreateTemp(c) \/ WriteTemp(c) \/ Rename(c)
    BY <2>2 DEF CreateTemp, WriteTemp, Rename
  <2>3. CASE LinkOutput(c)
    BY <1>1, <2>3 DEF LinkOutput, files, Inv, Types
  <2>4. CASE OpenOutput(c)
    BY <1>1, <2>4 DEF OpenOutput, Inv, Types
  <2>5. CASE Copy(c)
    BY <1>1, <2>5 DEF Copy, Inv, Types
  <2> QED
    BY <1>1, <2>1, <2>2, <2>3, <2>4, <2>5 DEF DownloadStep
<1>2. ASSUME Inv, Next PROVE Kept
  <2>1. CASE \E c \in Call, m \in Msg, o \in Output \union {None} : Start(c, m, o)
    BY <2>1 DEF Start, files
  <2>2. CASE Crash
    BY <1>2, <2>2 DEF Crash, Inv, Types
  <2>3. CASE \E o \in Output : UserStep(o)
    BY <1>2, <2>3 DEF UserStep, Inv, Types
  <2> QED
    BY <1>1, <1>2, <2>1, <2>2, <2>3 DEF Next
<1>3. Inv /\ [Next]_vars => [Kept]_vars
  BY <1>2
<1> QED
  BY <1>3, InvAlways, PTL DEF Spec, OutputIsKept
===============================================================================
