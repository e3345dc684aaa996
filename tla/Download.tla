-------------------------------- MODULE Download --------------------------------
(***************************************************************************)
(* Concurrent downloads of cached messages' media: Client.Download of      *)
(* internal/client/download.go with the read of the result that            *)
(* download_media and the whatsapp:// resource add.  Every file operation  *)
(* is a step; the files are the cache file of each message, the temporary  *)
(* file of each call and the output files callers name.                    *)
(***************************************************************************)
EXTENDS Naturals, FiniteSets

CONSTANTS
    Call, Msg, Output,
    Abroad,         \* outputs on another device than the cache
    None,
    MaxTrouble      \* bound: crashes, and the user's own changes to output files

ASSUME DownloadAssumption ==
    /\ Abroad \subseteq Output /\ None \notin Msg \union Output \union Call
    /\ Msg \intersect (Call \union {"missing", "partial", "users"}) = {}
    /\ MaxTrouble \in Nat

VARIABLES
    cache,      \* contents of the cache file of each message
    temp,       \* contents of the temporary file of each call
    output,     \* contents of the output files
    from,       \* the message whose cache file an output is a hard link to, or
                \* the call still copying into it
    call,       \* the calls
    crashes, userSteps

vars == <<cache, temp, output, from, call, crashes, userSteps>>

\* A file is missing, has the bytes of a message, is cut short or is the user's.
Content == Msg \union {"missing", "partial", "users"}

\* A call's step, message, output path and the bytes its result shows.
Idle == [at |-> "idle", msg |-> None, out |-> None, got |-> "missing"]

Init ==
    /\ cache = [m \in Msg |-> "missing"] /\ temp = [c \in Call |-> "missing"]
    /\ output = [o \in Output |-> "missing"] /\ from = [o \in Output |-> None]
    /\ call = [c \in Call |-> Idle]
    /\ crashes = 0 /\ userSteps = 0

files == <<cache, temp, output, from>>
outside == <<crashes, userSteps>>

Running(c) == call[c].at \notin {"idle", "done"}
Goto(c, at) == call' = [call EXCEPT ![c].at = at]
Fail(c) == call' = [call EXCEPT ![c] = Idle]

\* The output path is validated and the message looked up: a bad path, no row or
\* no media ends the call.
Start(c, m, o) ==
    /\ ~Running(c)
    /\ \/ call' = [call EXCEPT ![c] = [at |-> "stat", msg |-> m, out |-> o, got |-> "missing"]]
       \/ Fail(c)
    /\ UNCHANGED <<files, outside>>

\* A file at the output path satisfies the call.
StatOutput(c) ==
    /\ call[c].at = "stat"
    /\ IF call[c].out # None /\ output[call[c].out] # "missing"
       THEN Goto(c, "placed") ELSE Goto(c, "inspect")
    /\ UNCHANGED <<files, outside>>

\* Bug: any file under the cache name is taken.
InspectAnything(c) ==
    /\ call[c].at = "inspect"
    /\ IF cache[call[c].msg] # "missing" THEN Goto(c, "place") ELSE Goto(c, "fetch")
    /\ UNCHANGED <<files, outside>>

\* validateCachedMedia: only a file of the right length and hash counts; without
\* one, a directory that cannot be made, incomplete media information or an
\* unsupported type ends the call.
InspectCache(c) ==
    /\ call[c].at = "inspect"
    /\ \/ cache[call[c].msg] = call[c].msg /\ Goto(c, "place")
       \/ cache[call[c].msg] # call[c].msg /\ (Goto(c, "fetch") \/ Fail(c))
    /\ UNCHANGED <<files, outside>>

\* The library's download and validateMediaPayload: the right bytes, or failure.
Fetch(c) ==
    /\ call[c].at = "fetch"
    /\ Goto(c, "save") \/ Fail(c)
    /\ UNCHANGED <<files, outside>>

\* Bug: the cache file itself is opened for writing.
CreateInPlace(c) ==
    /\ call[c].at = "save"
    /\ Goto(c, "write") /\ temp' = [temp EXCEPT ![c] = "partial"]
    /\ cache' = [cache EXCEPT ![call[c].msg] = "partial"]
    /\ UNCHANGED <<output, from, outside>>

\* replaceCacheFile: a temporary file of the call's own.
CreateTemp(c) ==
    /\ call[c].at = "save"
    /\ \/ Goto(c, "write") /\ temp' = [temp EXCEPT ![c] = "partial"]
       \/ Fail(c) /\ UNCHANGED temp
    /\ UNCHANGED <<cache, output, from, outside>>

\* Bug: a temporary file that could not be written stays.
WriteTempKeeps(c) ==
    /\ call[c].at = "write"
    /\ \/ Goto(c, "rename") /\ temp' = [temp EXCEPT ![c] = call[c].msg]
       \/ Fail(c) /\ UNCHANGED temp
    /\ UNCHANGED <<cache, output, from, outside>>

\* chmod, write, close; the deferred removal on failure.
WriteTemp(c) ==
    /\ call[c].at = "write"
    /\ \/ Goto(c, "rename") /\ temp' = [temp EXCEPT ![c] = call[c].msg]
       \/ Fail(c) /\ temp' = [temp EXCEPT ![c] = "missing"]
    /\ UNCHANGED <<cache, output, from, outside>>

\* The rename takes the name from the old file, to which outputs may be links.
Rename(c) ==
    /\ call[c].at = "rename"
    /\ temp' = [temp EXCEPT ![c] = "missing"]
    /\ \/ /\ Goto(c, "place") /\ cache' = [cache EXCEPT ![call[c].msg] = temp[c]]
          /\ from' = [o \in Output |-> IF from[o] = call[c].msg THEN None ELSE from[o]]
       \/ Fail(c) /\ UNCHANGED <<cache, from>>
    /\ UNCHANGED <<output, outside>>

\* finalizeDownload without an output path: the cache file is the result.
ReturnCached(c) ==
    /\ call[c].at = "place" /\ call[c].out = None
    /\ Goto(c, "placed")
    /\ UNCHANGED <<files, outside>>

\* Bug: outputs are copied wherever they are.
LinkNever(c) ==
    /\ call[c].at = "place" /\ call[c].out # None
    /\ IF output[call[c].out] # "missing" THEN Goto(c, "placed") ELSE Goto(c, "open")
    /\ UNCHANGED <<files, outside>>

\* placeAtOutput, the hard link: a file that is there by now is accepted, and
\* another device turns to a copy.
LinkOutput(c) ==
    /\ call[c].at = "place" /\ call[c].out # None
    /\ LET o == call[c].out IN
       \/ output[o] # "missing" /\ Goto(c, "placed") /\ UNCHANGED files
       \/ output[o] = "missing" /\ o \in Abroad /\ Goto(c, "open") /\ UNCHANGED files
       \/ /\ output[o] = "missing" /\ o \notin Abroad /\ Goto(c, "placed")
          /\ output' = [output EXCEPT ![o] = cache[call[c].msg]]
          /\ from' = [from EXCEPT ![o] = call[c].msg]
          /\ UNCHANGED <<cache, temp>>
       \/ output[o] = "missing" /\ Fail(c) /\ UNCHANGED files
    /\ UNCHANGED outside

\* Bug: the copy is opened without O_EXCL.
OpenOutputAnyway(c) ==
    /\ call[c].at = "open"
    /\ Goto(c, "copy") /\ output' = [output EXCEPT ![call[c].out] = "partial"]
    /\ from' = [from EXCEPT ![call[c].out] = c]
    /\ UNCHANGED <<cache, temp, outside>>

\* The copy's file is created only if there is none.
OpenOutput(c) ==
    /\ call[c].at = "open"
    /\ LET o == call[c].out IN
       \/ output[o] # "missing" /\ Goto(c, "placed") /\ UNCHANGED <<output, from>>
       \/ /\ output[o] = "missing" /\ Goto(c, "copy")
          /\ output' = [output EXCEPT ![o] = "partial"] /\ from' = [from EXCEPT ![o] = c]
       \/ output[o] = "missing" /\ Fail(c) /\ UNCHANGED <<output, from>>
    /\ UNCHANGED <<cache, temp, outside>>

\* Bug: an output stays open when its copy fails.
CopyUnclosed(c) ==
    /\ call[c].at = "copy"
    /\ Goto(c, "placed") \/ Fail(c)
    /\ UNCHANGED <<files, outside>>

\* io.Copy and Close: a failure leaves what was written.  The user may have
\* removed the name meanwhile.
Copy(c) ==
    /\ call[c].at = "copy"
    /\ LET mine == {o \in Output : from[o] = c} IN
       /\ from' = [o \in Output |-> IF o \in mine THEN None ELSE from[o]]
       /\ \/ /\ Goto(c, "placed")
             /\ output' = [o \in Output |-> IF o \in mine THEN cache[call[c].msg] ELSE output[o]]
          \/ Fail(c) /\ UNCHANGED output
    /\ UNCHANGED <<cache, temp, outside>>

\* The tool embeds, and the resource returns, what the result's path has now;
\* the answer about an output file is not followed further.
ReadBack(c) ==
    /\ call[c].at = "placed"
    /\ IF call[c].out # None
       THEN call' = [call EXCEPT ![c] = Idle]
       ELSE call' = [call EXCEPT ![c].at = "done", ![c].got = cache[call[c].msg]]
    /\ UNCHANGED <<files, outside>>

-------------------------------------------------------------------------------

\* The daemon or its machine goes down: nothing is synced, so files that were
\* written may be found cut short.
Crash ==
    /\ crashes + userSteps < MaxTrouble /\ \E c \in Call : Running(c)
    /\ \E torn \in SUBSET Msg, cut \in SUBSET {o \in Output : from[o] \notin Msg} :
          /\ cache' = [m \in Msg |-> IF m \in torn /\ cache[m] = m THEN "partial" ELSE cache[m]]
          /\ output' = [o \in Output |->
                IF output[o] \in Msg /\ (from[o] \in torn \/ o \in cut) THEN "partial" ELSE output[o]]
    /\ from' = [o \in Output |-> IF from[o] \in Call THEN None ELSE from[o]]
    /\ call' = [c \in Call |-> IF Running(c) THEN Idle ELSE call[c]]
    /\ crashes' = crashes + 1
    /\ UNCHANGED <<temp, userSteps>>

\* The user removes an output file, or writes one: in place, so that the other
\* names of a linked file change with it.
UserStep(o) ==
    /\ crashes + userSteps < MaxTrouble /\ userSteps' = userSteps + 1
    /\ \/ /\ output[o] # "missing"
          /\ output' = [output EXCEPT ![o] = "missing"] /\ from' = [from EXCEPT ![o] = None]
          /\ UNCHANGED cache
       \/ LET m == from[o] IN
          /\ output' = [p \in Output |->
                IF p = o \/ (m \in Msg /\ from[p] = m) THEN "users" ELSE output[p]]
          /\ cache' = [n \in Msg |-> IF n = m THEN "users" ELSE cache[n]]
          /\ from' = [from EXCEPT ![o] = IF m \in Call THEN None ELSE m]
    /\ UNCHANGED <<temp, call, crashes>>

DownloadStep(c) ==
    \/ StatOutput(c) \/ InspectCache(c) \/ Fetch(c)
    \/ CreateTemp(c) \/ WriteTemp(c) \/ Rename(c)
    \/ ReturnCached(c) \/ LinkOutput(c) \/ OpenOutput(c) \/ Copy(c)
    \/ ReadBack(c)

Next ==
    \/ \E c \in Call, m \in Msg, o \in Output \union {None} : Start(c, m, o)
    \/ \E c \in Call : DownloadStep(c)
    \/ Crash
    \/ \E o \in Output : UserStep(o)

Spec == Init /\ [][Next]_vars

-------------------------------------------------------------------------------

\* A file that is being copied into has exactly one writer, and it is running.
TypeOK ==
    /\ cache \in [Msg -> Content] /\ temp \in [Call -> Content] /\ output \in [Output -> Content]
    /\ from \in [Output -> Msg \union Call \union {None}]
    /\ \A o \in Output : from[o] \in Call => call[from[o]].at = "copy" /\ call[from[o]].out = o
    /\ \A o \in Output : from[o] \in Msg => output[o] = cache[from[o]]
    /\ crashes + userSteps \in 0..MaxTrouble

\* The cache file and a call, as MediaFile sees them.
CachedFile == [m \in Msg |-> CASE cache[m] = "missing" -> "none"
                              [] cache[m] = m -> "whole"
                              [] OTHER -> "damaged"]
Stage(at) ==
    CASE at \in {"stat", "inspect", "fetch", "save", "write", "rename"} -> "asked"
      [] at \in {"place", "open", "copy"} -> "found"
      [] at \in {"placed", "done"} -> "returned"
      [] OTHER -> "idle"
Progress == [c \in Call |->
    [of |-> IF call[c].msg = None THEN "none" ELSE call[c].msg,
     named |-> call[c].out # None, is |-> Stage(call[c].at)]]

\* What the cache promises, whatever calls, crashes and users do: MediaFile.
MF == INSTANCE MediaFile WITH file <- CachedFile, get <- Progress
ImplementsMediaFile == MF!Spec

\* A caller that named no output file reads the bytes of its message, however
\* many calls replace the cache file meanwhile; only a user who writes through
\* a hard link can come between the check and the read.
ReadBackIsTheirs ==
    \A c \in Call : call[c].at = "done" /\ call[c].out = None /\ userSteps = 0 =>
        call[c].got = call[c].msg

\* An output on the cache's own device is never seen cut short: it appears whole
\* or not at all (only a crash can tear it).
LinkedOutputIsWhole ==
    crashes = 0 => \A o \in Output \ Abroad : output[o] # "partial"

\* No call ever replaces or removes a file that is at the output path ("calls
\* are skipped if the file already exists"): once its own copy is complete, a
\* file changes only by a crash or the user.
OutputIsKept ==
    [][\A o \in Output :
         output[o] # "missing" /\ from[o] \notin Call /\ output'[o] # output[o]
         => userSteps' # userSteps \/ crashes' # crashes]_vars

\* Temporary files do not pile up: without a crash each belongs to a call that is
\* still writing or renaming it.
TempsAreRemoved ==
    crashes = 0 => \A c \in Call : temp[c] # "missing" => call[c].at \in {"write", "rename"}

\* Short of a crash, calls that fail at any step leave no torn or stray file behind,
\* but for an output on another device.
DiskIsSound == LinkedOutputIsWhole /\ TempsAreRemoved
===============================================================================
