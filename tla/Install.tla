------------------------------ MODULE Install ------------------------------
(***************************************************************************)
(* make/make.go, installVKM: builds the library into an installation       *)
(* directory, or leaves alone what a meta file there says is up to date.   *)
(* The process can be killed, or fail, anywhere, and what it reads changes *)
(* at any time.  External: cgodep's meta files and dependency check, which *)
(* compares the dependencies' versions with those recorded.                *)
(***************************************************************************)
EXTENDS Naturals

CONSTANTS
  Absent,
  MaxEdits          \* bound on the changes to what the installation is made from

(* What a file is made from: tree is make/, src/ and include/, generator the *)
(* make/ the process was compiled from, vkspec its parser, headers and docs  *)
(* the vulkan-headers and vulkan-docs the parser reads.                      *)
Inputs == {"tree", "generator", "vkspec", "headers", "docs"}

ASSUME InstallAssumption ==
  MaxEdits \in Nat /\ Absent \notin [Inputs -> Nat] \union [version : Nat, headers : Nat]

VARIABLES
  source,        \* input -> number of its last change; the generator is of the tree
  modified,      \* the newest modification time in the tree, in seconds
  directory,     \* the files of the installation, each with what it was made from
  step,          \* of the installation under way, or "idle"
  compiled,      \* the sources the process is made from
  scanned,       \* the modification time in its version
  forced,
  changed,       \* history: inputs that changed unnoticed by the process
  missed         \* history: inputs that changed unnoticed by who reads the meta file

installVars ==
  <<source, modified, directory, step, compiled, scanned, forced, changed, missed>>

Files == {"headers", "static", "shared", "config", "meta"}
Empty == [file \in Files |-> Absent]

InstallInit ==
  /\ source = [i \in Inputs |-> 0] /\ modified = 0
  /\ directory = Empty
  /\ step = "idle"
  /\ compiled = source
  /\ scanned = 0
  /\ forced = FALSE
  /\ changed = {} /\ missed = {}

(* Some inputs change; unread and unseen: which of them the process under way *)
(* and the reader of a meta file cannot tell have changed.                   *)
Change(inputs, unread, unseen) ==
  /\ source.tree + source.vkspec + source.headers + source.docs < MaxEdits
  /\ source' = [i \in Inputs |-> IF i \in inputs THEN source[i] + 1 ELSE source[i]]
  /\ changed' = changed \union unread
  /\ missed' = missed \union unseen
  /\ UNCHANGED <<directory, step, compiled, scanned, forced>>

(* Two edits within a second leave the same modification time; one before the *)
(* scan is in it, but the process was compiled already.                      *)
EditTree ==
  LET edited == {"tree", "generator"}
  IN  \/ /\ modified' = modified + 1
         /\ Change(edited, IF step = "scan" THEN {"generator"} ELSE {}, {})
      \/ /\ modified' = modified
         /\ Change(edited, IF step = "scan" THEN {"generator"} ELSE edited, edited)

(* vkspec/ is not scanned, *)
EditParser == Change({"vkspec"}, {"vkspec"}, {"vkspec"}) /\ UNCHANGED modified

(* nor is vulkan-docs among the dependencies, *)
UpdateDocs == Change({"docs"}, {"docs"}, {"docs"}) /\ UNCHANGED modified

(* as vulkan-headers is, in the version it has when the meta file is written. *)
UpdateHeaders ==
  /\ Change({"headers"}, IF step \in Files \ {"headers"} THEN {"headers"} ELSE {}, {})
  /\ UNCHANGED modified

(* What the meta file must say for the directory to be left alone *)
Rebuilt(meta) ==
  meta = Absent \/ meta.headers # source.headers \/ meta.version # scanned

(* go run: the process is compiled first, *)
Start ==
  /\ step = "idle"
  /\ compiled' = source
  /\ changed' = {}
  /\ step' = "scan"
  /\ UNCHANGED <<source, modified, directory, scanned, forced, missed>>

(* then its version is made from the newest modification time. *)
Scan(force) ==
  /\ step = "scan"
  /\ scanned' = modified
  /\ forced' = force
  /\ step' = "decide"
  /\ UNCHANGED <<source, modified, directory, compiled, changed, missed>>

Decide ==
  /\ step = "decide"
  /\ step' = IF forced \/ Rebuilt(directory.meta) THEN "remove" ELSE "meta"
  /\ UNCHANGED <<source, modified, directory, compiled, scanned, forced, changed, missed>>

(* os.RemoveAll goes through the files in no order that is promised. *)
RemoveAll ==
  /\ step = "remove"
  /\ \/ \E file \in Files :
          /\ directory[file] # Absent
          /\ directory' = [directory EXCEPT ![file] = Absent]
          /\ UNCHANGED <<step, missed>>
     \/ /\ directory = Empty
        /\ step' = "headers"
        /\ missed' = {}
        /\ UNCHANGED directory
  /\ UNCHANGED <<source, modified, compiled, scanned, forced, changed>>

(* Fault: the meta file is written before the libraries are built. *)
MetaFirst(s) ==
  CASE s = "headers" -> "meta" [] s = "meta" -> "static" [] s = "static" -> "shared"
    [] s = "shared" -> "config" [] s = "config" -> "idle"

(* The order of the steps *)
After(s) ==
  CASE s = "headers" -> "static" [] s = "static" -> "shared" [] s = "shared" -> "config"
    [] s = "config" -> "meta" [] s = "meta" -> "idle"

Make(s, content) ==
  /\ step = s
  /\ directory' = [directory EXCEPT ![s] = content]
  /\ step' = After(s)
  /\ missed' = IF s = "meta" THEN missed \union changed ELSE missed
  /\ UNCHANGED <<source, modified, compiled, scanned, forced, changed>>

(* The reflection headers are generated, the others are copied. *)
CopyHeaders ==
  Make("headers", [i \in Inputs |-> IF i \in {"generator", "vkspec"} THEN compiled[i] ELSE source[i]])

(* Compiled with those headers from src/ and vulkan-headers *)
Library ==
  [i \in Inputs |-> IF i \in {"tree", "headers"} THEN source[i] ELSE directory.headers[i]]

BuildStatic == Make("static", Library)
BuildShared == Make("shared", Library)

(* #define VKM_VK_API is appended to the copy of vkm_config.h *)
AppendConfig == Make("config", directory.headers)

(* What the meta file says *)
Version == [version |-> scanned, headers |-> source.headers]

WriteMetaFile == Make("meta", Version)

(* An error, a panic, or the end of the process. Killed while it removes, it   *)
(* may leave the meta file where other files are gone.                       *)
Killed ==
  /\ step # "idle"
  /\ step' = "idle"
  /\ missed' = IF step = "remove" /\ \E file \in Files : directory[file] = Absent
               THEN missed \union {"removal"} ELSE missed
  /\ UNCHANGED <<source, modified, directory, compiled, scanned, forced, changed>>

InstallNext ==
  \/ EditTree \/ EditParser \/ UpdateDocs \/ UpdateHeaders
  \/ Start
  \/ \E force \in BOOLEAN : Scan(force)
  \/ Decide
  \/ RemoveAll
  \/ CopyHeaders \/ BuildStatic \/ BuildShared \/ AppendConfig \/ WriteMetaFile
  \/ Killed

InstallSpec == InstallInit /\ [][InstallNext]_installVars
-----------------------------------------------------------------------------
Products == Files \ {"meta"}

(* Type invariant *)
InstallTypeOK ==
  /\ source \in [Inputs -> Nat] /\ compiled \in [Inputs -> Nat]
  /\ modified \in Nat /\ scanned \in Nat
  /\ DOMAIN directory = Files
  /\ \A file \in Products : directory[file] \in [Inputs -> Nat] \union {Absent}
  /\ directory.meta \in [version : Nat, headers : Nat] \union {Absent}
  /\ forced \in BOOLEAN
  /\ step \in {"idle", "scan", "decide", "remove"} \union Files
  /\ changed \subseteq Inputs /\ missed \subseteq Inputs \union {"removal"}

(* A directory with a meta file has every header and library, and the API   *)
(* version in its vkm_config.h, however earlier installations ended, save   *)
(* that one killed in RemoveAll may have left no more than the meta file.    *)
MetaMeansComplete ==
  step # "remove" /\ directory.meta # Absent /\ "removal" \notin missed =>
    \A file \in Files : directory[file] # Absent

(* What a file was made from that is something else now *)
OutOfDate(file) == {i \in Inputs : directory[file][i] # source[i]}

(* A directory an installation would leave alone is made from what is there, *)
(* but for what the meta file cannot tell: vkspec/ and vulkan-docs, an edit   *)
(* in the second of an earlier one, make/ as the process was compiled from    *)
(* it, and vulkan-headers if it was replaced while they were in use.          *)
UpToDate ==
  /\ step = "idle" /\ "removal" \notin missed
  /\ directory.meta = [version |-> modified, headers |-> source.headers]
  => \A file \in Products : OutOfDate(file) \subseteq missed

(* Together: an installation that would be left alone is complete, and made   *)
(* from the sources as they are up to those it never looks at, wherever       *)
(* earlier ones were killed (installVKM).                                    *)
InstallSound == InstallTypeOK /\ MetaMeansComplete /\ UpToDate
=============================================================================
