------------------------------ MODULE RepoState ------------------------------
(***************************************************************************)
(* The repository state of src/repository/state/state.go, as operators on *)
(* a state value.  The state is shared by the packer workers of a session *)
(* (repo.State() and the session's stateDelta) and is rebuilt on load by  *)
(* merging deltas.  Every operation of state.go that changes the state is *)
(* an operator here that returns the new state (and, for lookups, the     *)
(* answer): the modules that compose the state use them in their actions. *)
(*                                                                         *)
(* Data abstraction: a checksum (MAC) is a model value or, for a packfile, *)
(* the packfile's index (its content); ids keep their meaning: id i is the *)
(* position i+1 of IdToChecksum, so ids stay contiguous from 0.           *)
(***************************************************************************)
EXTENDS Naturals, Sequences, FiniteSets, Functions, TLC

\* The version trailer written by Serialize and required by NewFromBytes.
VERSION == 100

\* The per-kind location maps of the State struct.  "Snapshots" is not in
\* this revision of state.go; the snapshot package calls
\* SetPackfileForSnapshot, which the spec says writes a map of its own.
MapNames == {"Chunks", "Objects", "Files", "Directories", "Blobs", "Snapshots"}

\* The blob types a PackerMsg carries (packfile.TYPE_*).
Kinds == {"chunk", "object", "file", "directory", "data", "snapshot"}

\* The map a SetPackfileFor<Kind> tests for an existing entry ...
GuardMap == [chunk |-> "Chunks", object |-> "Objects", file |-> "Files",
             directory |-> "Directories", data |-> "Blobs",
             snapshot |-> "Snapshots"]

\* ... and the map it then writes: Files, Directories and Blobs setters all
\* insert into Objects.
TargetMap == [chunk |-> "Chunks", object |-> "Objects", file |-> "Objects",
              directory |-> "Objects", data |-> "Objects",
              snapshot |-> "Snapshots"]

\* The map <Kind>Exists reads: BlobExists reads Directories.
ExistsMap == [chunk |-> "Chunks", object |-> "Objects", file |-> "Files",
              directory |-> "Directories", data |-> "Directories",
              snapshot |-> "Snapshots"]

\* The map GetSubpartFor<Kind> and GetPackfileFor<Kind> read.
LookupMap == GuardMap

\* state.New(): empty intern table and maps, clean.
New == [ IdToChecksum |-> << >>,
         maps         |-> [m \in MapNames |-> << >>],
         Extends      |-> << >>,
         Version      |-> VERSION,
         dirty        |-> FALSE ]

\* The id a checksum has in st (defined only when it has one).
IdOf(st, c) == CHOOSE i \in 0 .. Len(st.IdToChecksum) - 1 : st.IdToChecksum[i + 1] = c

\* getOrCreateIdForChecksum: a known checksum keeps its id, a new one gets
\* len(IdToChecksum).  Returns the new state; the id is IdOf of it.
getOrCreateIdForChecksum(st, c) ==
    IF c \in Range(st.IdToChecksum) THEN st
    ELSE [st EXCEPT !.IdToChecksum = Append(@, c)]

\* A location of a blob inside a packfile, the packfile given by its id.
Location(pfid, off, len) == [Packfile |-> pfid, Offset |-> off, Length |-> len]

\* The guard of SetPackfileFor<Kind>: the guard map has an entry for c
\* (both checksums already interned).
HasEntry(st, kind, c) == IdOf(st, c) \in DOMAIN st.maps[GuardMap[kind]]

\* The write keyed by uint64(len(st.IdToChecksum)), the next fresh id,
\* instead of the id interned for c (a mutant of WriteLocation).
WriteLocationAtLen(st, kind, pf, c, off, len) ==
    [st EXCEPT !.maps[TargetMap[kind]] =
                   (Len(st.IdToChecksum) :> Location(IdOf(st, pf), off, len)) @@ @,
               !.dirty = TRUE]

\* The body of SetPackfileFor<Kind> under its guard: the entry goes to the
\* target map (overwriting what that map held) and marks st dirty.
WriteLocation(st, kind, pf, c, off, len) ==
    [st EXCEPT !.maps[TargetMap[kind]] =
                   (IdOf(st, c) :> Location(IdOf(st, pf), off, len)) @@ @,
               !.dirty = TRUE]

\* SetPackfileFor<Kind>: intern the packfile then the blob, and insert a
\* location only if the guard map has no entry for the blob.
SetPackfileFor(st, kind, pf, c, off, len) ==
    LET s1 == getOrCreateIdForChecksum(getOrCreateIdForChecksum(st, pf), c)
    IN  IF HasEntry(s1, kind, c) THEN s1
        ELSE WriteLocation(s1, kind, pf, c, off, len)

\* <Kind>Exists: interns the checksum (a lookup grows the intern table) and
\* answers whether the map it reads has an entry.
ExistsAnswer(st, kind, c) ==
    LET s1 == getOrCreateIdForChecksum(st, c)
    IN  IdOf(s1, c) \in DOMAIN s1.maps[ExistsMap[kind]]

\* GetSubpartFor<Kind>: interns the checksum and returns the packfile
\* checksum, offset and length of its location, or NoSubpart.
NoSubpart == [found |-> FALSE]
GetSubpartFor(st, kind, c) ==
    LET s1 == getOrCreateIdForChecksum(st, c)
        m  == s1.maps[LookupMap[kind]]
        id == IdOf(s1, c)
    IN  IF id \in DOMAIN m
        THEN [found |-> TRUE, packfile |-> s1.IdToChecksum[m[id].Packfile + 1],
              offset |-> m[id].Offset, length |-> m[id].Length]
        ELSE NoSubpart

\* The state a lookup (Exists, GetSubpart, GetPackfile) leaves behind.
AfterLookup(st, c) == getOrCreateIdForChecksum(st, c)

\* Extends: append a parent state id to the lineage.
Extends(st, stateID) == [st EXCEPT !.Extends = Append(@, stateID)]

\* The setter Merge calls for the entries of each map of the delta.
MergeKind == [Chunks |-> "chunk", Objects |-> "object", Files |-> "file",
              Directories |-> "directory", Blobs |-> "data"]

\* Merge(stateID, delta): for each of the five maps of state.go, each entry
\* of the delta is translated back to checksums through the delta's intern
\* table and set on st with that map's setter.  stateID is not used.  Go
\* iterates a map in random order; the order only changes which ids st
\* assigns, so entries are taken by increasing id.
RECURSIVE MergeEntries(_, _, _, _)
MergeEntries(st, delta, m, ids) ==
    IF ids = {} THEN st
    ELSE LET id  == CHOOSE i \in ids : \A j \in ids : i <= j
             loc == delta.maps[m][id]
         IN  \* the state after this entry is bound once, as a value
             CHOOSE r \in {MergeEntries(s, delta, m, ids \ {id}) :
                            s \in {SetPackfileFor(st, MergeKind[m],
                                                  delta.IdToChecksum[loc.Packfile + 1],
                                                  delta.IdToChecksum[id + 1],
                                                  loc.Offset, loc.Length)}} : TRUE

\* A Merge that copies the delta's maps by id, taking the delta's ids to
\* mean the same checksums in st (a mutant of Merge).
MergeNoTranslate(st, stateID, delta) ==
    [st EXCEPT !.maps = [m \in MapNames |-> delta.maps[m] @@ st.maps[m]],
               !.IdToChecksum =
                   IF Len(delta.IdToChecksum) <= Len(@) THEN @
                   ELSE @ \o SubSeq(delta.IdToChecksum, Len(@) + 1, Len(delta.IdToChecksum))]

\* A Merge whose loop over the delta's Objects map is missing (a mutant
\* of Merge).
MergeSkipObjects(st, stateID, delta) ==
    LET s1 == MergeEntries(st, delta, "Chunks", DOMAIN delta.maps["Chunks"])
        s3 == MergeEntries(s1, delta, "Files", DOMAIN delta.maps["Files"])
        s4 == MergeEntries(s3, delta, "Directories", DOMAIN delta.maps["Directories"])
    IN  MergeEntries(s4, delta, "Blobs", DOMAIN delta.maps["Blobs"])

Merge(st, stateID, delta) ==
    LET s1 == MergeEntries(st, delta, "Chunks", DOMAIN delta.maps["Chunks"])
        s2 == MergeEntries(s1, delta, "Objects", DOMAIN delta.maps["Objects"])
        s3 == MergeEntries(s2, delta, "Files", DOMAIN delta.maps["Files"])
        s4 == MergeEntries(s3, delta, "Directories", DOMAIN delta.maps["Directories"])
    IN  MergeEntries(s4, delta, "Blobs", DOMAIN delta.maps["Blobs"])

\* Serialize: msgpack keeps the exported fields (not the dirty flag, not
\* checksumToId) followed by the 4-byte version trailer.
Serialize(st) == [ body    |-> [ IdToChecksum |-> st.IdToChecksum,
                                 maps         |-> st.maps,
                                 Extends      |-> st.Extends ],
                   version |-> st.Version ]

\* NewFromBytes: reject a wrong version, else unmarshal (and rebuild
\* checksumToId, which IdOf derives): the loaded state is clean.
BadState == "invalid state version"
NewFromBytes(bytes) ==
    IF bytes.version # VERSION THEN BadState
    ELSE [ IdToChecksum |-> bytes.body.IdToChecksum,
           maps         |-> bytes.body.maps,
           Extends      |-> bytes.body.Extends,
           Version      |-> bytes.version,
           dirty        |-> FALSE ]
=============================================================================
