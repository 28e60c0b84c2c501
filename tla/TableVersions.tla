---------------------------- MODULE TableVersions ----------------------------
(***************************************************************************)
(* How the versions of a PSI table become directories: the life of the     *)
(* directory of one PID (or of one table name) in the tree, and of the     *)
(* dentry each table in priv->psi_tables holds, over the sections that     *)
(* announce a new version.                                                 *)
(*                                                                         *)
(* The parsers go about it in two ways if the directory exists already.    *)
(*   PAT, PMT, NIT, SDT, SDTT: CREATE_COMMON throws the new dentry away,   *)
(*     and the new table holds the dentry of the table it replaces.        *)
(*   EIT, AIT: the new dentry is kept, without a name and outside the      *)
(*     tree.                                                               *)
(* They then go the same way: the children of the old dentry migrate to    *)
(* the new one and the old table leaves the hash table, which frees it.    *)
(*                                                                         *)
(* The files of a section have fixed names (CREATE_FILE_NUMBER and its     *)
(* like): where a Version_<n> has them already, those of another table of  *)
(* the directory that announced the same number are written over.          *)
(*                                                                         *)
(* psi_tables is a map here; HashTable has its slots.                      *)
(***************************************************************************)
EXTENDS Integers, FiniteSets

CONSTANTS
  Tables,     \* keys (PID and table_id) of the tables that share a directory
  Versions,   \* version_number; 0 .. 31 in the code
  NoVersion,  \* the target of a Current link that does not exist
  Dentries,   \* the dentries calloc() may return
  NoDentry,   \* NULL
  Kinds,      \* the parsers to look at: each behaviour is about one directory
  MaxTorn     \* bound: sections that break off after creating their directory

ASSUME VersionsAssumption ==
  /\ IsFiniteSet(Tables) /\ IsFiniteSet(Dentries)
  /\ Cardinality(Dentries) >= Cardinality(Tables) + 2
  /\ NoVersion \notin Versions /\ NoDentry \notin Dentries \cup Tables
  /\ Kinds \subseteq {"PAT", "PMT", "NIT", "SDT", "SDTT", "EIT", "AIT"}
  /\ MaxTorn \in Nat

VARIABLES
  kind,       \* the parser of this directory's tables
  dentry,     \* the dentries of the directory, alive or freed
  visible,    \* the one linked into the tree under the directory's name
  table,      \* priv->psi_tables: the last version accepted and its dentry
  fault,      \* a freed dentry was used: what follows has no meaning
  parsed,     \* history: the versions parsed to the end, per table
  torn,       \* history: how many sections broke off
  writer,     \* history: the table that last announced each version number
  last        \* history: the section last written to the tree

vars == <<kind, dentry, visible, table, fault, parsed, torn, writer, last>>

(* The parsers that keep their dentry out of a directory that exists.      *)
Unlinked == kind \in {"EIT", "AIT"}

(* Those whose directory belongs to one key: table_id and PID are fixed.   *)
OneKey == kind \in {"PAT", "SDT", "SDTT"}

(* files: whose files are in Version_<n>, NoDentry if it is not there      *)
(* (numbered subdirectories that only an earlier table's section had, such *)
(* as Event_03, may still be beside them); current: the target of the      *)
(* Current link; inode: the key of the table the dentry was created for.   *)
Absent == [v \in Versions |-> NoDentry]
Freed == [state |-> "free", files |-> Absent, current |-> NoVersion, inode |-> NoDentry]
NoTable == [version |-> NoVersion, dir |-> NoDentry]
NoSection == [key |-> NoDentry, version |-> NoVersion]

Alive(d) == d # NoDentry /\ dentry[d].state # "free"
Held == {table[k].dir : k \in Tables} \ {NoDentry}

-----------------------------------------------------------------------------
(* calloc() of the new table's dentry.                                     *)
Fresh == CHOOSE d \in Dentries : dentry[d].state = "free"

(* The directory the version goes into: the one in the tree, if any.       *)
Home == IF visible # NoDentry THEN visible ELSE Fresh

(* Mutant of NewDentry: the unlinked tables alias the directory as well.   *)
NewDentry_Aliases == Home

(* The dentry of the new table.                                            *)
NewDentry == IF Unlinked THEN Fresh ELSE Home

(* Mutant of VersionDir: an existing Current link is left as it is.        *)
VersionDir_CurrentOnce(dir, k, v) ==
  [dir EXCEPT !.files[v] = k,
              !.current = IF @ = NoVersion THEN v ELSE @]

(* fsutils_create_version_dir() and the files of the table's section,      *)
(* which replace those of the same names.                                  *)
VersionDir(dir, k, v) == [dir EXCEPT !.files[v] = k, !.current = v]

(* The dentries after <table>_create_directory().                          *)
Created(k, v) ==
  LET named == [Freed EXCEPT !.state = "named", !.inode = k]
      home == IF visible # NoDentry THEN dentry[visible] ELSE named
      new == IF NewDentry = Home THEN dentry
             ELSE [dentry EXCEPT ![NewDentry] = [Freed EXCEPT !.state = "nameless", !.inode = k]]
  IN  [new EXCEPT ![Home] = VersionDir(home, k, v)]

(* Mutant of Migrated: nothing moves.                                      *)
Migrated_Nothing(ds, source, target) == ds

(* Mutant of Migrated: what comes replaces what the target has.            *)
Migrated_Replaces(ds, source, target) ==
  [ds EXCEPT
    ![target].files = [v \in Versions |->
       IF ds[source].files[v] # NoDentry THEN ds[source].files[v] ELSE @[v]],
    ![target].current = IF @ = NoVersion THEN ds[source].current ELSE @,
    ![source].files = Absent]

(* fsutils_migrate_children(): what the target has already stays behind,   *)
(* the files within two directories of one name included.                  *)
Migrated(ds, source, target) ==
  IF source = target THEN ds
  ELSE [ds EXCEPT
    ![target].files = [v \in Versions |->
       IF @[v] = NoDentry THEN ds[source].files[v] ELSE @[v]],
    ![target].current = IF @ = NoVersion THEN ds[source].current ELSE @,
    ![source].files = [v \in Versions |->
       IF ds[target].files[v] = NoDentry THEN NoDentry ELSE @[v]],
    ![source].current = IF ds[target].current = NoVersion THEN NoVersion ELSE @]

(* <table>_free(): fsutils_dispose_tree() of a dentry with a name, free()  *)
(* of one without; a child still there is freed with the first and lost    *)
(* with the second.                                                        *)
Disposed(ds, d) == [ds EXCEPT ![d] = Freed]

(* The section announces a version that is not the one in the hash table.  *)
(* Any other section is dropped with the dentry made for it, as is one     *)
(* whose current_next_indicator is 0.                                      *)
Wanted(k, v) == table[k].version # v

-----------------------------------------------------------------------------
(* What the parsers have in common.                                        *)

(* The first section of a table: hashtable_get() returned NULL.  The table *)
(* is filed under the inode of its dentry, which is another table's key    *)
(* if that one created the directory both share.                           *)
First(k, v) ==
  /\ table[k] = NoTable
  /\ dentry' = Created(k, v)
  /\ visible' = Home
  /\ table' = [table EXCEPT ![dentry'[NewDentry].inode] = [version |-> v, dir |-> NewDentry]]
  /\ parsed' = [parsed EXCEPT ![k] = @ \cup {v}]
  /\ UNCHANGED <<fault, torn>>

(* A new version of a table: the children of the old dentry migrate and    *)
(* hashtable_del() frees it, and the directory with it if it has the name. *)
(* If it is the new table's dentry too, hashtable_add() reads it freed.    *)
Update(k, v) ==
  LET old == table[k].dir IN
  /\ table[k] # NoTable /\ Wanted(k, v)
  /\ dentry' = Disposed(Migrated(Created(k, v), old, NewDentry), old)
  /\ visible' = IF old = Home THEN NoDentry ELSE Home
  /\ fault' = (~Alive(old) \/ old = NewDentry)
  /\ table' = [table EXCEPT ![k] = IF fault' THEN NoTable
                                   ELSE [version |-> v, dir |-> NewDentry]]
  /\ parsed' = [parsed EXCEPT ![k] = @ \cup {v}]
  /\ UNCHANGED torn

Parsed(k, v) == First(k, v) \/ Update(k, v)

-----------------------------------------------------------------------------
(* The parsers: <table>_parse() on a section of key k and version v.       *)

NitParse(k, v)  == kind = "NIT" /\ Parsed(k, v)
PmtParse(k, v)  == kind = "PMT" /\ Parsed(k, v)
SdttParse(k, v) == kind = "SDTT" /\ Parsed(k, v)
EitParse(k, v)  == kind = "EIT" /\ Parsed(k, v)

(* PAT frees the old dentry's tree by itself, then has the hash table read *)
(* the freed dentry's inode: the fault comes one statement earlier, and    *)
(* with the old table still in the hash table.                             *)
PatParse(k, v) ==
  /\ kind = "PAT"
  /\ \/ First(k, v)
     \/ /\ table[k] # NoTable /\ Wanted(k, v)
        /\ dentry' = Disposed(Migrated(Created(k, v), table[k].dir, NewDentry), table[k].dir)
        /\ visible' = IF table[k].dir = Home THEN NoDentry ELSE Home
        /\ fault' = TRUE
        /\ parsed' = [parsed EXCEPT ![k] = @ \cup {v}]
        /\ UNCHANGED <<table, torn>>

(* A section of the SDT whose loops exceed it is freed again, together     *)
(* with the directory, which is the current table's as well.               *)
SdtParse(k, v) ==
  /\ kind = "SDT"
  /\ \/ Parsed(k, v)
     \/ /\ Wanted(k, v) /\ torn < MaxTorn
        /\ torn' = torn + 1
        /\ dentry' = Disposed(Created(k, v), Home)
        /\ visible' = NoDentry
        /\ UNCHANGED <<table, fault, parsed>>

(* A section of an AIT that breaks off after its directory was created:    *)
(* the new dentry is forgotten, but stays in the tree if it has the name.  *)
AitParse(k, v) ==
  /\ kind = "AIT"
  /\ \/ Parsed(k, v)
     \/ /\ Wanted(k, v) /\ torn < MaxTorn
        /\ torn' = torn + 1
        /\ dentry' = [dentry EXCEPT ![Home] = Created(k, v)[Home]]
        /\ visible' = Home
        /\ UNCHANGED <<table, fault, parsed>>

(* One section of the directory's tables, from the hash table's lookup on. *)
Section(k, v) ==
  /\ ~fault
  /\ OneKey => last.key \in {k, NoDentry}
  /\ \/ PatParse(k, v) \/ PmtParse(k, v) \/ NitParse(k, v)
     \/ SdtParse(k, v) \/ SdttParse(k, v)
     \/ EitParse(k, v) \/ AitParse(k, v)
  /\ last' = [key |-> k, version |-> v]
  /\ writer' = [writer EXCEPT ![v] = k]
  /\ UNCHANGED kind

Init ==
  /\ kind \in Kinds
  /\ dentry = [d \in Dentries |-> Freed]
  /\ visible = NoDentry
  /\ table = [k \in Tables |-> NoTable]
  /\ fault = FALSE
  /\ parsed = [k \in Tables |-> {}]
  /\ torn = 0
  /\ writer = [v \in Versions |-> NoDentry]
  /\ last = NoSection

Next == \E k \in Tables, v \in Versions : Section(k, v)

Spec == Init /\ [][Next]_vars

-----------------------------------------------------------------------------
(* Type invariant: the dentries, the hash table and the history.  A freed  *)
(* dentry has nothing left under it that could be found again.             *)
TypeOK ==
  /\ kind \in Kinds
  /\ torn \in 0 .. MaxTorn
  /\ dentry \in [Dentries -> [state : {"free", "named", "nameless"},
                              files : [Versions -> Tables \cup {NoDentry}],
                              current : Versions \cup {NoVersion},
                              inode : Tables \cup {NoDentry}]]
  /\ \A d \in Dentries : dentry[d].state = "free" => dentry[d] = Freed
  /\ visible \in Dentries \cup {NoDentry}
  /\ table \in [Tables -> [version : Versions, dir : Dentries] \cup {NoTable}]
  /\ fault \in BOOLEAN
  /\ parsed \in [Tables -> SUBSET Versions]
  /\ writer \in [Versions -> Tables \cup {NoDentry}]
  /\ last \in [key : Tables, version : Versions] \cup {NoSection}

(* What the properties below are stated up to: the use of a freed dentry,  *)
(* and an SDT section that broke off and took the current table's tree.    *)
Sound == ~fault /\ (kind = "SDT" => torn = 0)

(* Every dentry in use has one owner: a table never holds a freed dentry,  *)
(* no two tables hold the same one (each would free it), and the only one  *)
(* with a name is the one in the tree.  No section of an EIT or AIT ends   *)
(* up using a freed one.  The aliasing of CREATE_COMMON, the migration and *)
(* the free functions must agree for this, over any order of the tables.   *)
HeldOnce ==
  /\ Unlinked => ~fault
  /\ Sound =>
       /\ \A d \in Held : Alive(d)
       /\ \A k, l \in Tables : table[k].dir = table[l].dir => k = l \/ table[k] = NoTable
       /\ \A d \in Dentries : dentry[d].state = "named" <=> d = visible
       /\ \A d \in Dentries : Alive(d) => d \in Held \cup {visible}

(* A version is lost only to another of its number: the files of the       *)
(* section that last announced a version number, of whatever table, are    *)
(* under a directory that is in the tree or held by a table, whence they   *)
(* may migrate back.  Those of another table that announced the number     *)
(* before may be gone: written over in the directory both share.           *)
VersionsKept ==
  Sound => \A v \in Versions : writer[v] # NoDentry =>
    \E d \in Held \cup ({visible} \ {NoDentry}) : dentry[d].files[v] = writer[v]

(* While the directory is in the tree, Current leads to the version of the *)
(* last section of any of its tables, and that section's files are there.  *)
CurrentIsLast ==
  Sound /\ visible # NoDentry =>
    /\ dentry[visible].current = last.version
    /\ dentry[visible].files[last.version] = last.key

(* The directory has the files of a version of the table.                  *)
Shown(k, v) == visible # NoDentry /\ dentry[visible].files[v] = k

(* Unless a section breaks off, a directory only one table uses is in the  *)
(* tree with all the versions of that table, or it is not in the tree at   *)
(* all: what left with an update is back with the next.                    *)
AllOrNothing ==
  visible # NoDentry /\ torn = 0 =>
    \A k \in Tables : (\A l \in Tables \ {k} : parsed[l] = {}) =>
      \A v \in parsed[k] : Shown(k, v)

(* "DemuxFS records all versions received so far under different           *)
(* subdirectories" (src/README.md): each version parsed is in the tree.    *)
(* It does not hold: the second version takes the directory away.          *)
VersionsShown ==
  \A k \in Tables : \A v \in parsed[k] : Shown(k, v)
==============================================================================
