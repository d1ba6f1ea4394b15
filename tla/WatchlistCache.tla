--------------------------- MODULE WatchlistCache ---------------------------
(***************************************************************************)
(* The watchlist cache of the account web application                      *)
(* (moomoo/examples/account_web/service.py): a synchronisation writes a    *)
(* temporary file and moves it over the cache file. The web server runs    *)
(* each request on a thread of its own, and there is one temporary name,   *)
(* so several synchronisations may write the same file.                    *)
(*                                                                         *)
(* A file is what a name refers to, and what a thread that has opened it   *)
(* goes on writing or reading when the name is gone or means another file. *)
(* A payload is written in parts, as the buffer of the file fills up.      *)
(***************************************************************************)
EXTENDS Integers, Sequences, FiniteSets

CONSTANTS
    Syncs,    \* calls of sync_watchlists_cache
    Readers,  \* calls of read_watchlists_cache
    Parts     \* parts of a payload

NoFile == 0
Files  == 1 .. Cardinality(Syncs)
NoSync == "none"
Hole   == [sync |-> NoSync, part |-> 0]   \* what a file has where nobody wrote

ASSUME WatchlistCacheAssumption == IsFiniteSet(Syncs) /\ Parts \in Nat \ {0}

VARIABLES
    cacheFile, \* watchlists_cache.json
    tmpFile,   \* watchlists_cache.json.tmp
    files,     \* files that have been created
    content,   \* the parts in each file: [sync, part] or Hole
    stage,     \* where each synchronisation is
    handle,    \* the file it has opened
    reader,    \* where each reader is: "idle", "open", "missing", "read"
    source,    \* the file it has opened
    got,       \* what it has read
    alone,     \* history: synchronisations that no other one ran beside
    sound,     \* history: the one that made the cache file, if it was alone
    expected   \* history: sound, when the reader opened the file

cacheVars == <<cacheFile, tmpFile, files, content, stage, handle, reader, source, got,
               alone, sound, expected>>

CacheInit ==
    /\ cacheFile = NoFile /\ tmpFile = NoFile /\ files = 0
    /\ content = [f \in Files |-> <<>>]
    /\ stage = [s \in Syncs |-> [at |-> "idle", part |-> 0]]
    /\ handle = [s \in Syncs |-> NoFile]
    /\ reader = [r \in Readers |-> "idle"] /\ source = [r \in Readers |-> NoFile]
    /\ got = [r \in Readers |-> <<>>]
    /\ alone = {} /\ sound = NoSync /\ expected = [r \in Readers |-> NoSync]

Payload(s) == [i \in 1 .. Parts |-> [sync |-> s, part |-> i]]

Writing == {s \in Syncs : stage[s].at = "write"}

-----------------------------------------------------------------------------
(***************************************************************************)
(* sync_watchlists_cache, from the moment all groups are loaded: it raises *)
(* before it writes if the groups cannot be had, and a group that cannot   *)
(* be loaded is an entry of the payload. The rest is                       *)
(* write_watchlists_cache.                                                 *)
(***************************************************************************)
\* Variant: the payload is written to the cache file itself.
OpenTmp_InPlace(s) ==
    /\ stage[s].at = "idle"
    /\ stage' = [stage EXCEPT ![s] = [at |-> "write", part |-> 0]]
    /\ alone' = IF Writing = {} THEN alone \union {s} ELSE alone \ Writing
    /\ files' = 1 /\ tmpFile' = 1 /\ cacheFile' = 1
    /\ handle' = [handle EXCEPT ![s] = 1]
    /\ content' = [content EXCEPT ![1] = <<>>]
    /\ UNCHANGED <<reader, source, got, sound, expected>>

\* The temporary file is opened, and emptied if it is there.
OpenTmp(s) ==
    /\ stage[s].at = "idle"
    /\ stage' = [stage EXCEPT ![s] = [at |-> "write", part |-> 0]]
    /\ alone' = IF Writing = {} THEN alone \union {s} ELSE alone \ Writing
    /\ IF tmpFile = NoFile
       THEN files' = files + 1 /\ tmpFile' = files + 1 /\ handle' = [handle EXCEPT ![s] = files + 1]
       ELSE UNCHANGED <<files, tmpFile>> /\ handle' = [handle EXCEPT ![s] = tmpFile]
    /\ content' = [content EXCEPT ![handle'[s]] = <<>>]
    /\ UNCHANGED <<cacheFile, reader, source, got, sound, expected>>

\* The next part goes where this thread's last one ended.
WritePart(s) ==
    /\ stage[s].at = "write" /\ stage[s].part < Parts
    /\ LET i == stage[s].part + 1
           old == content[handle[s]]
           length == IF Len(old) < i THEN i ELSE Len(old)
       IN content' = [content EXCEPT ![handle[s]] =
                         [k \in 1 .. length |->
                             IF k = i THEN [sync |-> s, part |-> i]
                             ELSE IF k <= Len(old) THEN old[k] ELSE Hole]]
    /\ stage' = [stage EXCEPT ![s].part = @ + 1]
    /\ UNCHANGED <<cacheFile, tmpFile, files, handle, reader, source, got, alone, sound,
                   expected>>

\* The disk is full; the temporary file stays as it is.
WriteFails(s) ==
    /\ stage[s].at = "write" /\ stage[s].part < Parts
    /\ stage' = [stage EXCEPT ![s].at = "failed"] /\ handle' = [handle EXCEPT ![s] = NoFile]
    /\ UNCHANGED <<cacheFile, tmpFile, files, content, reader, source, got, alone, sound,
                   expected>>

\* Variant: the temporary name is not given up.
Replace_KeepsName(s) ==
    /\ stage[s].at = "write" /\ stage[s].part = Parts
    /\ handle' = [handle EXCEPT ![s] = NoFile]
    /\ stage' = [stage EXCEPT ![s].at = "done"]
    /\ cacheFile' = tmpFile /\ UNCHANGED tmpFile
    /\ sound' = IF s \in alone THEN s ELSE NoSync
    /\ UNCHANGED <<files, content, reader, source, got, alone, expected>>

\* The temporary file is moved. If another synchronisation has moved it, this one
\* fails, FileNotFoundError.
Replace(s) ==
    /\ stage[s].at = "write" /\ stage[s].part = Parts
    /\ handle' = [handle EXCEPT ![s] = NoFile]
    /\ IF tmpFile = NoFile
       THEN /\ stage' = [stage EXCEPT ![s].at = "failed"]
            /\ UNCHANGED <<cacheFile, tmpFile, sound>>
       ELSE /\ stage' = [stage EXCEPT ![s].at = "done"]
            /\ cacheFile' = tmpFile /\ tmpFile' = NoFile
            /\ sound' = IF s \in alone THEN s ELSE NoSync
    /\ UNCHANGED <<files, content, reader, source, got, alone, expected>>

-----------------------------------------------------------------------------
(***************************************************************************)
(* read_watchlists_cache.                                                  *)
(***************************************************************************)
OpenCache(r) ==
    /\ reader[r] = "idle"
    /\ IF cacheFile = NoFile
       THEN reader' = [reader EXCEPT ![r] = "missing"] /\ UNCHANGED <<source, expected>>
       ELSE /\ reader' = [reader EXCEPT ![r] = "open"]
            /\ source' = [source EXCEPT ![r] = cacheFile]
            /\ expected' = [expected EXCEPT ![r] = sound]
    /\ UNCHANGED <<cacheFile, tmpFile, files, content, stage, handle, got, alone, sound>>

ReadCache(r) ==
    /\ reader[r] = "open"
    /\ reader' = [reader EXCEPT ![r] = "read"]
    /\ got' = [got EXCEPT ![r] = content[source[r]]]
    /\ UNCHANGED <<cacheFile, tmpFile, files, content, stage, handle, source, alone, sound,
                   expected>>

\* The server is stopped and started: what its threads were doing is not finished.
Crash ==
    /\ Writing # {}
    /\ stage' = [s \in Syncs |-> IF s \in Writing THEN [at |-> "failed", part |-> 0]
                                 ELSE stage[s]]
    /\ handle' = [s \in Syncs |-> NoFile]
    /\ reader' = [r \in Readers |-> IF reader[r] = "open" THEN "missing" ELSE reader[r]]
    /\ UNCHANGED <<cacheFile, tmpFile, files, content, source, got, alone, sound, expected>>

CacheNext ==
    \/ \E s \in Syncs : OpenTmp(s) \/ WritePart(s) \/ WriteFails(s) \/ Replace(s)
    \/ \E r \in Readers : OpenCache(r) \/ ReadCache(r)
    \/ Crash

CacheSpec == CacheInit /\ [][CacheNext]_cacheVars
-----------------------------------------------------------------------------
(***************************************************************************)
(* Properties.                                                             *)
(***************************************************************************)
PartType == [sync : Syncs, part : 1 .. Parts] \union {Hole}

\* Every variable keeps its type.
CacheTypeOK ==
    /\ cacheFile \in 0 .. files /\ tmpFile \in 0 .. files /\ files \in {NoFile} \union Files
    /\ content \in [Files -> Seq(PartType)]
    /\ stage \in [Syncs -> [at : {"idle", "write", "done", "failed"}, part : 0 .. Parts]]
    /\ handle \in [Syncs -> 0 .. files] /\ source \in [Readers -> 0 .. files]
    /\ reader \in [Readers -> {"idle", "open", "missing", "read"}]
    /\ got \in [Readers -> Seq(PartType)]
    /\ alone \subseteq Syncs /\ sound \in Syncs \union {NoSync}
    /\ expected \in [Readers -> Syncs \union {NoSync}]

\* The cache holds the whole payload of the last synchronisation that moved its
\* file there, if no other one ran beside it: whatever failed or was cut short
\* before or since, and whatever others have begun.
CacheWhole == sound # NoSync => content[cacheFile] = Payload(sound)

\* A reader that opened such a file reads that payload whole, however long it
\* takes and whatever is synchronised meanwhile.
ReaderWhole ==
    \A r \in Readers :
        reader[r] = "read" /\ expected[r] # NoSync => got[r] = Payload(expected[r])
=============================================================================
