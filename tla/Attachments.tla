---------------------------- MODULE Attachments ----------------------------
(***************************************************************************)
(* Attachments and their contents (AttachmentsService, ObjectStorage): the *)
(* row is in the database, the content in a store that no transaction      *)
(* covers.  Each access to one of them is a step; a process may stop       *)
(* between two.                                                            *)
(*                                                                         *)
(* Time is abstracted to what is decided by it: a file grows past its time *)
(* to live (a day unattached, the retention of an export) at any moment.   *)
(* Abstracted: authorisation, contents and names, the business columns     *)
(* that detachReferences clears, audit.                                    *)
(***************************************************************************)
EXTENDS Integers, FiniteSets

CONSTANTS
  Keys,     \* storage keys; each names a content and, later, its row
  Uploads,  \* the keys of uploaded files
  Owners,   \* business objects files are attached to
  None

ASSUME AttachmentsAssumption == Uploads \subseteq Keys /\ None \notin Owners

VARIABLES
  storage,    \* contents in the store
  row,        \* Attachment rows
  aged,       \* files past their time to live
  attached,   \* uploaded files attached before that (what attachedAt tells)
  uploading,  \* uploads whose content is stored and row is not
  erasing,    \* contents to erase after the commit of a removal
  purge       \* the purges under way: files listed, and the one just erased

files == <<storage, row, aged, attached, uploading, erasing, purge>>

Purges == {"TEMPORAIRES", "EXPORTS"}
Idle == [listed |-> {}, erased |-> None]

Row == [kind : {"ABSENTE", "TEMPORAIRE", "EXPORT"}, owner : Owners \cup {None},
        deleted : {"NON", "UTILISATEUR", "PURGE"}]

Live(f) == row[f].kind # "ABSENTE" /\ row[f].deleted = "NON"

FilesOK ==
  /\ storage \subseteq Keys /\ aged \subseteq Keys /\ attached \subseteq Keys
  /\ row \in [Keys -> Row]
  /\ uploading \subseteq Uploads /\ erasing \subseteq Uploads
  /\ purge \in [Purges -> [listed : SUBSET Keys, erased : Keys \cup {None}]]
  /\ \A p \in Purges : purge[p].erased \in purge[p].listed \cup {None}

FilesInit ==
  /\ storage = {} /\ aged = {} /\ attached = {} /\ uploading = {} /\ erasing = {}
  /\ row = [f \in Keys |-> [kind |-> "ABSENTE", owner |-> None, deleted |-> "NON"]]
  /\ purge = [p \in Purges |-> Idle]

----------------------------------------------------------------------------
(* Uploading and attaching *)

\* upload, first step: the content is stored under a new key.
Put(f) ==
  /\ row[f].kind = "ABSENTE" /\ f \notin storage
  /\ storage' = storage \cup {f} /\ uploading' = uploading \cup {f}
  /\ UNCHANGED <<row, aged, attached, erasing, purge>>

\* upload, second step: the row, a temporary file without an owner.
RecordUpload(f) ==
  /\ f \in uploading
  /\ row' = [row EXCEPT ![f].kind = "TEMPORAIRE"]
  /\ uploading' = uploading \ {f}
  /\ UNCHANGED <<storage, aged, attached, erasing, purge>>

\* attach: a conditional write, on a file still free or already that owner's.
Attach(f, owner) ==
  /\ row[f].kind = "TEMPORAIRE" /\ Live(f)
  /\ row[f].owner \in {None, owner}
  /\ row' = [row EXCEPT ![f].owner = owner]
  /\ attached' = IF f \in aged THEN attached ELSE attached \cup {f}
  /\ UNCHANGED <<storage, aged, uploading, erasing, purge>>

Age(f) ==
  /\ row[f].kind # "ABSENTE" /\ f \notin aged
  /\ aged' = aged \cup {f}
  /\ UNCHANGED <<storage, row, attached, uploading, erasing, purge>>

----------------------------------------------------------------------------
(* Removal by a person: the row first, the content after the commit.       *)

Remove(f) ==
  /\ row[f].kind = "TEMPORAIRE" /\ Live(f)
  /\ row' = [row EXCEPT ![f].deleted = "UTILISATEUR"]
  /\ erasing' = erasing \cup {f}
  /\ UNCHANGED <<storage, aged, attached, uploading, purge>>

\* The after-commit action runs once; its failure is logged and not retried.
Erase(f) ==
  /\ f \in erasing
  /\ erasing' = erasing \ {f}
  /\ storage' \in {storage, storage \ {f}}
  /\ UNCHANGED <<row, aged, attached, uploading, purge>>

----------------------------------------------------------------------------
(* Purges of the worker: a list, then for each file its content and, with  *)
(* no condition, its row.                                                  *)

\* Mutant of Stale: the owner is not looked at.
StaleWhateverOwner(p) == {f \in aged : Live(f)}

\* purgeAbandoned and purgeExpiredExports list files past their time.
Stale(p) ==
  {f \in aged : /\ Live(f)
                /\ IF p = "EXPORTS" THEN row[f].kind = "EXPORT"
                   ELSE row[f].kind = "TEMPORAIRE" /\ row[f].owner = None}

List(p) ==
  /\ purge[p] = Idle /\ Stale(p) # {}
  /\ purge' = [purge EXCEPT ![p].listed = Stale(p)]
  /\ UNCHANGED <<storage, row, aged, attached, uploading, erasing>>

EraseListed(p, f) ==
  /\ f \in purge[p].listed /\ purge[p].erased = None
  /\ storage' = storage \ {f}
  /\ purge' = [purge EXCEPT ![p].erased = f]
  /\ UNCHANGED <<row, aged, attached, uploading, erasing>>

MarkListed(p) ==
  LET f == purge[p].erased
  IN  /\ f # None
      /\ row' = [row EXCEPT ![f].deleted = "PURGE"]
      /\ purge' = [purge EXCEPT ![p] = [listed |-> @.listed \ {f}, erased |-> None]]
      /\ UNCHANGED <<storage, aged, attached, uploading, erasing>>

\* The worker stops, or the store or the database fails in a purge.
PurgeStops(p) ==
  /\ purge[p] # Idle
  /\ purge' = [purge EXCEPT ![p] = Idle]
  /\ UNCHANGED <<storage, row, aged, attached, uploading, erasing>>

\* The API stops between the two steps of an upload or of a removal.
RequestStops(f) ==
  /\ f \in uploading \cup erasing
  /\ uploading' = uploading \ {f} /\ erasing' = erasing \ {f}
  /\ UNCHANGED <<storage, row, aged, attached, purge>>

FilesNext ==
  \/ \E f \in Uploads : Put(f) \/ RecordUpload(f) \/ Remove(f) \/ Erase(f) \/ RequestStops(f)
  \/ \E f \in Uploads, owner \in Owners : Attach(f, owner)
  \/ \E f \in Keys : Age(f)
  \/ \E p \in Purges : List(p) \/ MarkListed(p) \/ PurgeStops(p)
  \/ \E p \in Purges, f \in Keys : EraseListed(p, f)

FilesSpec == FilesInit /\ [][FilesNext]_files

----------------------------------------------------------------------------
(* Properties *)

\* A file attached to a business object before a purge could list it, and not
\* removed by a person, keeps its row and its content, whatever purges,
\* failed erasures and stops happen around it.
AttachedFilesKept ==
  \A f \in attached : row[f].deleted # "UTILISATEUR" => Live(f) /\ f \in storage

\* What DECISIONS.md (D-312) says of purges: only temporary files not
\* attached are purged, never those of a business object.
OnlyTemporaryPurged ==
  \A f \in Uploads : row[f].deleted = "PURGE" => row[f].owner = None
=============================================================================
