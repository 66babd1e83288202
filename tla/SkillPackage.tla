---------------------------- MODULE SkillPackage ----------------------------
(***************************************************************************)
(* An uploaded package from the archive to the files the engines see:      *)
(* engine_runner/normalizer.py unpacks it at the submission doors,         *)
(* submit_scan stores the files as a tar, and every worker unpacks that.   *)
(*                                                                         *)
(* An archive is a sequence of entries; a path is the sequence of its      *)
(* segments.  Sizes are in small units, with the limits as constants.      *)
(***************************************************************************)
EXTENDS Naturals, Sequences, FiniteSets, SequencesExt, FiniteSetsExt

CONSTANTS Entries,        \* [path, kind, size, mode, data] an archive may contain
          Uploads,        \* [format, packed]: containers and compressed sizes
          MaxUpload,      \* bound: entries of an upload
          MaxArchive, MaxFile, MaxTotal, MaxEntries, MaxRatio, MaxDepth

VARIABLES upload,         \* [format, packed, entries]
          artifact        \* the tar submit_scan stored, or NoArtifact

packageVars == <<upload, artifact>>

NoArtifact == [format |-> "none", packed |-> 0, entries |-> << >>]

Header == 1               \* what a tar adds to each member

Illegal == {"", "..", "a\\.."}

\* _canonicalize_member_path
Canonical(path) == SelectSeq(path, LAMBDA seg : seg # ".")

LegalPath(path) ==
    /\ Len(path) <= MaxDepth
    /\ \A i \in DOMAIN path : path[i] \notin Illegal
    /\ Canonical(path) # << >>

IsFile(e) == e.kind = "file"

\* The files of an archive, in its order, under their canonical paths
FilesOf(entries) ==
    LET files == SelectSeq(entries, IsFile)
    IN  [i \in DOMAIN files |->
            [path |-> Canonical(files[i].path), mode |-> files[i].mode, data |-> files[i].data,
             size |-> files[i].size]]

TotalSize(entries) ==
    FoldFunction(LAMBDA e, sum : (IF IsFile(e) THEN e.size ELSE 0) + sum, 0, entries)

IsPrefixPath(p, q) == Len(p) < Len(q) /\ SubSeq(q, 1, Len(p)) = p

\* No path twice, and none that is both a file and a directory.
PathsAreIndependent(files) ==
    \A i, j \in DOMAIN files : i # j =>
        files[i].path # files[j].path /\ ~IsPrefixPath(files[i].path, files[j].path)

\* unpack_hardened: everything but this is UnpackRejected.
UnpackAccepts(a) ==
    /\ a.packed \in 1..MaxArchive
    /\ Len(a.entries) <= MaxEntries
    /\ \A i \in DOMAIN a.entries :
          /\ LegalPath(a.entries[i].path)
          /\ a.entries[i].kind # "link"
          /\ IsFile(a.entries[i]) => a.entries[i].size <= MaxFile
    /\ TotalSize(a.entries) <= MaxTotal
    /\ TotalSize(a.entries) <= MaxRatio * a.packed
    /\ FilesOf(a.entries) # << >>
    /\ PathsAreIndependent(FilesOf(a.entries))

\* zip_to_tar_bytes, before it opens the archive
ZipContainerAccepts(a) == a.packed \in 1..MaxArchive /\ Len(a.entries) <= MaxEntries

\* _transcode_zip: the limits a tar of the contents cannot
\* show any more, and entries that are neither files nor directories
ZipAccepts(a) ==
    /\ ZipContainerAccepts(a)
    /\ \A i \in DOMAIN a.entries :
          /\ a.entries[i].kind \in {"file", "dir"}
          /\ IsFile(a.entries[i]) => a.entries[i].size <= MaxFile
    /\ TotalSize(a.entries) <= MaxTotal
    /\ TotalSize(a.entries) <= MaxRatio * a.packed
    /\ \E i \in DOMAIN a.entries : IsFile(a.entries[i])

TarSize(entries) == TotalSize(entries) + Header * Len(entries)

\* A zip's mode of 0 becomes 0644.
ZipMode(mode) == IF mode = 0 THEN 644 ELSE mode

Transcode(a) ==
    LET files == SelectSeq(a.entries, IsFile)
    IN  [format |-> "tar", packed |-> TarSize(files),
         entries |-> [i \in DOMAIN files |-> [files[i] EXCEPT !.mode = ZipMode(@)]]]

\* unpack_package_archive
PackageAccepts(a) ==
    IF a.format = "zip" THEN ZipAccepts(a) /\ UnpackAccepts(Transcode(a)) ELSE UnpackAccepts(a)

PackageFiles(a) == FilesOf(IF a.format = "zip" THEN Transcode(a).entries ELSE a.entries)

\* Variant: members get tarfile's default mode.
PackTarModeless(files) ==
    LET entries == [i \in DOMAIN files |->
            [path |-> files[i].path, kind |-> "file", size |-> files[i].size, mode |-> 644,
             data |-> files[i].data]]
    IN  [format |-> "tar", packed |-> TarSize(entries), entries |-> entries]

\* _pack_tar, uncompressed
PackTar(files) ==
    LET entries == [i \in DOMAIN files |->
            [path |-> files[i].path, kind |-> "file", size |-> files[i].size,
             mode |-> files[i].mode, data |-> files[i].data]]
    IN  [format |-> "tar", packed |-> TarSize(entries), entries |-> entries]

\* content_hash: the files, whatever their order and container
ContentHash(files) ==
    {[path |-> files[i].path, mode |-> files[i].mode, data |-> files[i].data] : i \in DOMAIN files}

-----------------------------------------------------------------------------

PackageInit == /\ \E u \in Uploads :
                     upload = [format |-> u.format, packed |-> u.packed, entries |-> << >>]
               /\ artifact = NoArtifact

AddEntry(e) == /\ Len(upload.entries) < MaxUpload /\ artifact = NoArtifact
               /\ upload' = [upload EXCEPT !.entries = Append(@, e)]
               /\ UNCHANGED artifact

\* A submission door accepts the upload, and submit_scan stores it.
StorePackage == /\ artifact = NoArtifact /\ PackageAccepts(upload)
                /\ artifact' = PackTar(PackageFiles(upload))
                /\ UNCHANGED upload

PackageNext == (\E e \in Entries : AddEntry(e)) \/ StorePackage

-----------------------------------------------------------------------------

\* A directory tree as the adapters' materialisation builds it: a write makes
\* the parents, and fails or overwrites where something is in the way.
Ancestors(p) == {SubSeq(p, 1, n) : n \in 1..(Len(p) - 1)}

WriteAll(files) ==
    FoldLeft(LAMBDA tree, f :
        IF ~tree.ok \/ f.path \in tree.dirs \/ Ancestors(f.path) \cap DOMAIN tree.at # {}
        THEN [tree EXCEPT !.ok = FALSE]
        ELSE [ok |-> TRUE, dirs |-> tree.dirs \cup Ancestors(f.path),
              at |-> [p \in DOMAIN tree.at \cup {f.path} |->
                         IF p = f.path THEN f.data ELSE tree.at[p]]],
        [ok |-> TRUE, dirs |-> {}, at |-> [p \in {} |-> ""]], files)

\* Workers that unpack the stored artifact get the files that were submitted and
\* whose hash the scan is recorded under, unless they refuse it for its size; and
\* written to a directory file by file each keeps its own content (submit_scan,
\* run_mock_engine_worker_tick, SubprocessEngineAdapter.analyze).
WorkersSeeTheSubmittedFiles ==
    artifact # NoArtifact /\ artifact.packed <= MaxArchive =>
        LET files == FilesOf(artifact.entries)
            tree  == WriteAll(files)
        IN  /\ UnpackAccepts(artifact)
            /\ ContentHash(files) = ContentHash(PackageFiles(upload))
            /\ tree.ok /\ \A i \in DOMAIN files : tree.at[files[i].path] = files[i].data
=============================================================================
