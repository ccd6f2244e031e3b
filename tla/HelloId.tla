------------------------------ MODULE HelloId ------------------------------
(***************************************************************************)
(* The identity of an installation (MakeStableHelloId, src/app/main.cpp):  *)
(* read from a file beside the program, taken over from the place where an *)
(* older version kept it, or drawn and stored.  A start may be killed      *)
(* anywhere, and two of them may run at the same time.                     *)
(***************************************************************************)
EXTENDS Naturals, FiniteSets

CONSTANTS
    Starts,       \* processes, each started at most once
    Ids,          \* values of 32 digits
    NoId          \* a file that is absent, empty or of another length

ASSUME HelloIdAssumption == NoId \notin Ids

VARIABLES
    idFile,       \* the file opendisplay_id beside the program
    oldFile,      \* the file of versions before config.ini
    at,           \* where each process is in MakeStableHelloId
    existing,     \* the id it has found or drawn
    drawn,        \* ids drawn so far
    helloIds,     \* ids senders have seen
    unstored,     \* an id could not be written
    overlapped    \* two processes were in MakeStableHelloId at once

idVars == <<idFile, oldFile, at, existing, drawn, helloIds, unstored, overlapped>>

Choosing == {"read", "readOld", "draw", "open", "write"}

GoesOn(p, from, to) == at[p] = from /\ at' = [at EXCEPT ![p] = to]

Begin(p) ==
    /\ GoesOn(p, "no", "read")
    /\ overlapped' = (overlapped \/ \E q \in Starts : at[q] \in Choosing)
    /\ UNCHANGED <<idFile, oldFile, existing, drawn, helloIds, unstored>>

\* Reads one of the files; an id of 32 digits decides.
ReadFile(p, from, content, found, other) ==
    /\ GoesOn(p, from, IF content \in Ids THEN found ELSE other)
    /\ existing' = [existing EXCEPT ![p] = content]
    /\ UNCHANGED <<idFile, oldFile, drawn, helloIds, unstored, overlapped>>

Read(p) == ReadFile(p, "read", idFile, "return", "readOld")

\* Mutant: the older version's file is not looked at.
ReadOldNever(p) == ReadFile(p, "readOld", NoId, "open", "draw")

ReadOld(p) == ReadFile(p, "readOld", oldFile, "open", "draw")

Draw(p, id) ==
    /\ id \notin drawn /\ GoesOn(p, "draw", "open")
    /\ existing' = [existing EXCEPT ![p] = id] /\ drawn' = drawn \cup {id}
    /\ UNCHANGED <<idFile, oldFile, helloIds, unstored, overlapped>>

\* ofstream with trunc: the file is empty, or cannot be opened.
Open(p) ==
    /\ \/ GoesOn(p, "open", "write") /\ idFile' = NoId /\ UNCHANGED unstored
       \/ GoesOn(p, "open", "return") /\ unstored' = TRUE /\ UNCHANGED idFile
    /\ UNCHANGED <<oldFile, existing, drawn, helloIds, overlapped>>

\* The stream is written when it is destroyed; nobody looks whether it was.
Write(p) ==
    /\ GoesOn(p, "write", "return")
    /\ \/ idFile' = existing[p] /\ UNCHANGED unstored
       \/ unstored' = TRUE /\ UNCHANGED idFile
    /\ UNCHANGED <<oldFile, existing, drawn, helloIds, overlapped>>

\* hello and the TXT record.
AnnounceId(p) ==
    /\ GoesOn(p, "return", "up")
    /\ helloIds' = helloIds \cup {existing[p]}
    /\ UNCHANGED <<idFile, oldFile, existing, drawn, unstored, overlapped>>

\* Killed, or over: only the files remain.
End(p) ==
    /\ at[p] \notin {"no", "over"} /\ at' = [at EXCEPT ![p] = "over"]
    /\ UNCHANGED <<idFile, oldFile, existing, drawn, helloIds, unstored, overlapped>>

-----------------------------------------------------------------------------
\* A new installation, or one whose older version has announced its id.
IdInit ==
    /\ idFile = NoId /\ oldFile \in Ids \cup {NoId}
    /\ at = [p \in Starts |-> "no"] /\ existing = [p \in Starts |-> NoId]
    /\ drawn = {oldFile} \ {NoId} /\ helloIds = {oldFile} \ {NoId}
    /\ unstored = FALSE /\ overlapped = FALSE

IdNext == \E p \in Starts :
    \/ Begin(p) \/ Read(p) \/ ReadOld(p) \/ (\E id \in Ids : Draw(p, id))
    \/ Open(p) \/ Write(p) \/ AnnounceId(p) \/ End(p)

IdSpec == IdInit /\ [][IdNext]_idVars

-----------------------------------------------------------------------------
(* Properties.                                                             *)

(* "Stable per-install identity" (main.cpp:75-77): every start announces    *)
(* the same id, the one of the older version if there was one, wherever     *)
(* earlier starts were killed; except after an id could not be stored or    *)
(* two starts chose at the same time.                                       *)
OneIdentity == unstored \/ overlapped \/ Cardinality(helloIds) <= 1
=============================================================================
