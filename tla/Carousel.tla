------------------------------- MODULE Carousel -------------------------------
(***************************************************************************)
(* A DSM-CC carousel on one PID (src/src/dsm-cc/): dsmcc_parse() and the   *)
(* parsers it dispatches to, for the sections of                           *)
(*   the DSI, which leads to the carousel's DII,                           *)
(*   the DII, which lists the modules and their sizes,                     *)
(*   the DDBs, one block of one module each,                               *)
(*   the AIT, which names the application (usually on a PID of its own).   *)
(* The sections come round again and again, in an order of the             *)
(* broadcaster's, and some are never received.  When the DII comes by and  *)
(* all the blocks it asks for are there, the DSM-CC directory is made of   *)
(* them.  What happens inside it is left to biop.c.                        *)
(*                                                                         *)
(* DSI and DII are tables like those of TableVersions: a new version is    *)
(* written to the directory of the old one, which goes with that one.      *)
(***************************************************************************)
EXTENDS Integers, FiniteSets

CONSTANTS
  Modules,         \* module_ids
  LastVersion,     \* bound: the carousel changes from version 0 to this one
  ModuleSize,      \* ModuleSize[v][m]: bytes of the module in that version
  BlockSize,       \* bytes of every block of a module but its last
  ObjectCarousel,  \* the DSI has a reference to the DII, by transaction_id
  NoVersion        \* no table, no block

ASSUME CarouselAssumption ==
  /\ LastVersion \in Nat /\ BlockSize \in Nat \ {0}
  /\ ModuleSize \in [0 .. LastVersion -> [Modules -> Nat]]
  /\ \A v \in 0 .. LastVersion : \E m \in Modules : ModuleSize[v][m] > 0
  /\ ObjectCarousel \in BOOLEAN
  /\ NoVersion \notin 0 .. LastVersion

VARIABLES
  onAir,       \* the version being broadcast; its DSI and DII have the transaction_id
  dsi,         \* the DSI in psi_tables, and where its DII symbolic link leads
  dii,         \* the DII in psi_tables, with _filesystem_created
  ddb,         \* the version of the first DDB, whose directory takes all blocks
  blocks,      \* the block files: the version each block was broadcast in
  ait,         \* the AIT in the tree: "none", it has an application "name" or "noname"
  fs,          \* history: the DSM-CC file system created last
  made,        \* history: how many were created for the DII in psi_tables
  undefined    \* a freed dentry or NULL was used: what follows has no meaning

carousel == <<onAir, dsi, dii, ddb, blocks, ait, fs, made, undefined>>

Versions == 0 .. LastVersion

NoDsi == [version |-> NoVersion, link |-> "none"]
NoDii == [version |-> NoVersion, created |-> FALSE]
(* The blocks a module is broadcast in: as many as it takes for its bytes. *)
BlocksOf(v, m) == {b \in 0 .. ModuleSize[v][m] : b * BlockSize < ModuleSize[v][m]}
Numbers == UNION {BlocksOf(v, m) : v \in Versions, m \in Modules}

NoBlocks == [m \in Modules |-> [b \in Numbers |-> NoVersion]]
NoFs == [version |-> NoVersion, app |-> "none", blocks |-> NoBlocks]

-----------------------------------------------------------------------------
(* DDB.                                                                    *)

(* ddb_block_number_already_parsed(), on the blocks of whatever version    *)
(* came first.                                                             *)
AlreadyParsed(m, b) == blocks[m][b] # NoVersion

(* ddb_parse(): the first block creates the directory and the table, later *)
(* ones go to that table's Current directory, their version_number unseen. *)
DdbParse(m, b) ==
  /\ b \in BlocksOf(onAir, m)
  /\ ~AlreadyParsed(m, b)
  /\ blocks' = [blocks EXCEPT ![m][b] = onAir]
  /\ ddb' = IF ddb = NoVersion THEN onAir ELSE ddb
  /\ UNCHANGED <<onAir, dsi, dii, ait, fs, made, undefined>>

-----------------------------------------------------------------------------
(* DII.                                                                    *)

(* Mutant of Expected: the block with the remaining bytes is forgotten.    *)
Expected_NoRemainder(v, m) == ModuleSize[v][m] \div BlockSize

(* dii_expected_module_blocks()                                            *)
Expected(v, m) ==
  ModuleSize[v][m] \div BlockSize + (IF ModuleSize[v][m] % BlockSize # 0 THEN 1 ELSE 0)

(* Mutant of ModuleComplete: empty modules are waited for as well.         *)
ModuleComplete_WaitsForEmpty(v, m) ==
  /\ \E b \in Numbers : blocks[m][b] # NoVersion
  /\ \A b \in 0 .. Expected(v, m) - 1 : blocks[m][b] # NoVersion

(* dii_module_complete()                                                   *)
ModuleComplete(v, m) ==
  \A b \in 0 .. Expected(v, m) - 1 : blocks[m][b] # NoVersion

(* dii_download_complete()                                                 *)
DownloadComplete(v) == ddb # NoVersion /\ \A m \in Modules : ModuleComplete(v, m)

(* The first blocks of each module, up to the number expected: what        *)
(* dii_create_filesystem() copies together and hands to biop.c.            *)
Contents(v) ==
  [m \in Modules |-> [b \in Numbers |->
     IF b < Expected(v, m) THEN blocks[m][b] ELSE NoVersion]]

(* The first DII.                                                          *)
DiiFirst ==
  /\ dii = NoDii
  /\ dii' = [version |-> onAir, created |-> FALSE]
  /\ made' = 0
  /\ UNCHANGED <<onAir, dsi, ddb, blocks, ait, fs, undefined>>

(* A DII that is in the hash table comes by again: is it time to create    *)
(* the file system?                                                        *)
Wanted == ~dii.created /\ DownloadComplete(dii.version)

(* dii_create_filesystem().  The application's name is taken from the AIT  *)
(* of the moment; where its first application has none, the search goes on *)
(* from a NULL dentry.                                                     *)
DiiRepeat ==
  /\ dii # NoDii /\ dii.version = onAir
  /\ Wanted
  /\ dii' = [dii EXCEPT !.created = TRUE]
  /\ \/ /\ ait # "noname"
        /\ fs' = [version |-> dii.version, app |-> ait, blocks |-> Contents(dii.version)]
        /\ made' = made + 1
        /\ UNCHANGED undefined
     \/ /\ ait = "noname"
        /\ undefined' = TRUE
        /\ UNCHANGED <<fs, made>>
  /\ UNCHANGED <<onAir, dsi, ddb, blocks, ait>>

(* A new version of the DII, in the old one's directory: hashtable_del()   *)
(* frees the directory, hashtable_add() reads the freed inode.             *)
DiiUpdate ==
  /\ dii # NoDii /\ dii.version # onAir
  /\ undefined' = TRUE
  /\ dii' = NoDii
  /\ UNCHANGED <<onAir, dsi, ddb, blocks, ait, fs, made>>

-----------------------------------------------------------------------------
(* DSI.                                                                    *)

(* Mutant of LinkTo: the transaction_ids are not compared.                 *)
LinkTo_Any(v) == IF ObjectCarousel /\ dii # NoDii THEN "dii" ELSE "none"

(* dsi_create_dii_symlink() for a DSI of version v: no link before there   *)
(* is a DII to look at, and a broken one if that is another transaction's. *)
LinkTo(v) ==
  IF ~ObjectCarousel \/ dii = NoDii THEN "none"
  ELSE IF dii.version = v THEN "dii" ELSE "broken"

DsiFirst ==
  /\ dsi = NoDsi
  /\ dsi' = [version |-> onAir, link |-> LinkTo(onAir)]
  /\ UNCHANGED <<onAir, dii, ddb, blocks, ait, fs, made, undefined>>

LinkMissing == dsi.link = "none"

(* `if (current_dsi && ! current_dsi->_linked_to_dii)'                     *)
DsiRepeat ==
  /\ dsi # NoDsi /\ dsi.version = onAir
  /\ LinkMissing /\ LinkTo(dsi.version) # "none"
  /\ dsi' = [dsi EXCEPT !.link = LinkTo(dsi.version)]
  /\ UNCHANGED <<onAir, dii, ddb, blocks, ait, fs, made, undefined>>

DsiUpdate ==
  /\ dsi # NoDsi /\ dsi.version # onAir
  /\ undefined' = TRUE
  /\ dsi' = NoDsi
  /\ UNCHANGED <<onAir, dii, ddb, blocks, ait, fs, made>>

-----------------------------------------------------------------------------
(* The AIT as far as dii_create_filesystem() looks at it.                  *)
AitParse ==
  /\ ait = "none"
  /\ ait' \in {"name", "noname"}
  /\ UNCHANGED <<onAir, dsi, dii, ddb, blocks, fs, made, undefined>>

(* The broadcaster goes on to the next version of the carousel.            *)
Change ==
  /\ onAir < LastVersion
  /\ onAir' = onAir + 1
  /\ UNCHANGED <<dsi, dii, ddb, blocks, ait, fs, made, undefined>>

Dsi == ~undefined /\ (DsiFirst \/ DsiRepeat \/ DsiUpdate)
Dii == ~undefined /\ (DiiFirst \/ DiiRepeat \/ DiiUpdate)
Ddb(m, b) == ~undefined /\ DdbParse(m, b)

CarouselNext ==
  \/ Dsi \/ Dii
  \/ \E m \in Modules, b \in Numbers : Ddb(m, b)
  \/ ~undefined /\ AitParse
  \/ ~undefined /\ Change

CarouselInit ==
  /\ onAir = 0
  /\ dsi = NoDsi
  /\ dii = NoDii
  /\ ddb = NoVersion
  /\ blocks = NoBlocks
  /\ ait = "none"
  /\ fs = NoFs
  /\ made = 0
  /\ undefined = FALSE

(* A carousel repeats its sections for ever, and each is received from     *)
(* time to time.  An AIT or a change of version need not come.             *)
CarouselFairness ==
  /\ WF_carousel(Dsi) /\ WF_carousel(Dii)
  /\ \A m \in Modules, b \in Numbers : WF_carousel(Ddb(m, b))

CarouselSpec == CarouselInit /\ [][CarouselNext]_carousel /\ CarouselFairness

-----------------------------------------------------------------------------
(* Properties.                                                             *)

BlockFiles == [Modules -> [Numbers -> Versions \cup {NoVersion}]]

(* Type invariant.  There are blocks if, and only if, there is a DDB table.*)
CarouselTypes ==
  /\ onAir \in Versions
  /\ dsi \in [version : Versions, link : {"none", "dii", "broken"}] \cup {NoDsi}
  /\ dii \in [version : Versions, created : BOOLEAN] \cup {NoDii}
  /\ ddb \in Versions \cup {NoVersion}
  /\ blocks \in BlockFiles
  /\ ddb = NoVersion <=> blocks = NoBlocks
  /\ ait \in {"none", "name", "noname"}
  /\ fs \in [version : Versions \cup {NoVersion}, app : {"none", "name"}, blocks : BlockFiles]
  /\ made \in 0 .. 1
  /\ undefined \in BOOLEAN

(* A file system is created of whole modules: all the blocks the           *)
(* broadcaster cuts the modules of that DII into are in it, and none that  *)
(* the modules do not have, although blocks come in any order and in more  *)
(* than one version.                                                       *)
FsWhole ==
  fs.version # NoVersion =>
    \A m \in Modules, b \in Numbers :
      fs.blocks[m][b] # NoVersion <=> b \in BlocksOf(fs.version, m)

(* A carousel that does not change gets its file system, and its DSI is    *)
(* linked to its DII, whatever order its sections are received in: the     *)
(* parser keeps no list of what is missing and only looks for it when the  *)
(* DII comes round, and the DSI may have come first.                       *)
Undisturbed == onAir = 0 /\ ait # "noname"
Mounted == []Undisturbed => <>(made = 1 /\ (ObjectCarousel => dsi.link = "dii"))

(* The link of a DSI leads to a DII of its own transaction, and is         *)
(* broken if, and only if, there was none when both had been received;     *)
(* with the carousel changing between any two sections.                    *)
LinkRight ==
  ~undefined =>
    /\ dsi.link = "dii" => dii.version = dsi.version
    /\ dsi.link = "broken" => dii # NoDii /\ dii.version # dsi.version
==============================================================================
