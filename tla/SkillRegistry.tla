----------------------------- MODULE SkillRegistry -----------------------------
(***************************************************************************)
(* The catalogue of external skills (skill_registry.py).  An import of a   *)
(* local source lists its directory once and then opens the listed files   *)
(* one after the other, while anyone may change the directory; it may fail *)
(* at any file and keeps what it has catalogued until then.  The catalogue *)
(* is a dictionary under "source:skill", in memory.                        *)
(*                                                                         *)
(* A name that contains ":" is a sequence of several parts, so the key is  *)
(* a concatenation here as it is there.                                    *)
(***************************************************************************)
EXTENDS Naturals, Sequences

CONSTANTS
  SourceNames,    \* names of sources, as sequences of parts
  Directories,    \* paths a local source may have
  Registrable,    \* sources [type, path] that callers register
  FileOrder,      \* file names in the order of sorted()
  StemOf,         \* file name -> its name without the extension, in parts
  SkillFiles,     \* file names with one of the four extensions
  Contents,       \* contents of files
  MaxChanges,     \* bound: changes of directories
  MaxImports      \* bound: imports

Files == {FileOrder[i] : i \in DOMAIN FileOrder}

(* Every name has a part; a directory has no two files of one name.        *)
SkillNames == Seq(STRING) \ {<< >>}
ASSUME NamesAssumption ==
  /\ SourceNames \subseteq SkillNames
  /\ FileOrder \in Seq(Files) /\ StemOf \in [Files -> SkillNames]
  /\ \A i, j \in DOMAIN FileOrder : FileOrder[i] = FileOrder[j] => i = j

VARIABLES
  sources,        \* name -> [type, path]
  disk,           \* directory -> file -> what is there
  skills,         \* key -> entry
  importing,      \* the import under way, or NotImporting
  untouched,      \* history: files that did not change since it began
  changes,        \* number of changes of directories so far
  imports         \* number of imports so far

registryVars == <<sources, disk, skills, importing, untouched, changes, imports>>

Missing == "missing"
Subdirectory == "subdirectory"
Unreadable == "unreadable"
OnDisk == Contents \cup {Missing, Subdirectory, Unreadable}

NoPath == "none"
SkillSources == [type : {"local", "git", "other"}, path : Directories \cup {NoPath}]
Metadata == "metadata"

Key(source, stem) == source \o stem
NotImporting == [source |-> << >>]
Idling == importing = NotImporting

ASSUME SourcesAssumption == Registrable \subseteq SkillSources
ASSUME ContentsAssumption ==
  Contents # {} /\ Contents \cap {Missing, Subdirectory, Unreadable} = {}
ASSUME BoundsAssumption == MaxChanges \in Nat /\ MaxImports \in Nat

RegistryTypeOK ==
  /\ DOMAIN sources \subseteq SourceNames
  /\ \A s \in DOMAIN sources : sources[s] \in SkillSources
  /\ disk \in [Directories -> [Files -> OnDisk]]
  /\ \A k \in DOMAIN skills :
       /\ skills[k].source \in SourceNames
       /\ k = Key(skills[k].source, skills[k].name)
       /\ skills[k].content \in Contents \cup {Metadata}
  /\ ~Idling => /\ importing.source \in SourceNames /\ importing.path \in Directories
                /\ importing.todo \subseteq Files
  /\ untouched \subseteq Files
  /\ changes \in 0..MaxChanges
  /\ imports \in 0..MaxImports

-----------------------------------------------------------------------------
RegistryInit ==
  /\ sources = << >>
  /\ disk \in [Directories -> [Files -> {Missing, CHOOSE c \in Contents : TRUE}]]
  /\ skills = << >>
  /\ importing = NotImporting
  /\ untouched = {}
  /\ changes = 0
  /\ imports = 0

(* register_source: a second one of the same name replaces the first, and  *)
(* leaves its skills in the catalogue.                                     *)
RegisterSource(name, source) ==
  /\ Idling
  /\ sources' = [n \in DOMAIN sources \cup {name} |->
                   IF n = name THEN source ELSE sources[n]]
  /\ UNCHANGED <<disk, skills, importing, untouched, changes, imports>>

ChangeDisk(d, f, there) ==
  /\ changes < MaxChanges
  /\ changes' = changes + 1
  /\ disk' = [disk EXCEPT ![d][f] = there]
  /\ untouched' = IF ~Idling /\ importing.path = d THEN untouched \ {f} ELSE untouched
  /\ UNCHANGED <<sources, skills, importing, imports>>

(* os.listdir; sorted() is in the choice of the next file.                 *)
Listing(d) == {f \in Files : disk[d][f] # Missing}

(* A name that is not registered, a type that is not supported or a path   *)
(* that is missing raise before anything changes.                          *)
BeginImport(name) ==
  /\ Idling
  /\ imports < MaxImports
  /\ name \in DOMAIN sources
  /\ sources[name].type = "local" /\ sources[name].path \in Directories
  /\ importing' = [source |-> name, path |-> sources[name].path,
                   todo |-> Listing(sources[name].path), opening |-> FALSE, done |-> FALSE]
  /\ untouched' = Files
  /\ imports' = imports + 1
  /\ UNCHANGED <<sources, disk, skills, changes>>

Catalogued(source, stem, path, file, content) ==
  [k \in DOMAIN skills \cup {Key(source, stem)} |->
     IF k = Key(source, stem)
     THEN [source |-> source, name |-> stem, path |-> path, file |-> file, content |-> content]
     ELSE skills[k]]

(* _import_git_metadata: one entry with the name of the source.            *)
ImportGit(name) ==
  /\ Idling
  /\ imports < MaxImports
  /\ name \in DOMAIN sources
  /\ sources[name].type = "git"
  /\ skills' = Catalogued(name, name, NoPath, Missing, Metadata)
  /\ imports' = imports + 1
  /\ UNCHANGED <<sources, disk, importing, untouched, changes>>

AtFile == ~Idling /\ ~importing.done /\ importing.todo # {}
ThisFile ==
  FileOrder[CHOOSE i \in DOMAIN FileOrder :
              /\ FileOrder[i] \in importing.todo
              /\ \A j \in DOMAIN FileOrder : FileOrder[j] \in importing.todo => i <= j]
Found == disk[importing.path][ThisFile]
NextFile == [importing EXCEPT !.todo = @ \ {ThisFile}, !.opening = FALSE]

\* Deliberate error: a subdirectory ends the import.
SkipFileEnding ==
  /\ AtFile /\ ~importing.opening
  /\ ThisFile \notin SkillFiles \/ Found \in {Missing, Subdirectory}
  /\ importing' = IF Found = Subdirectory THEN [importing EXCEPT !.todo = {}] ELSE NextFile
  /\ UNCHANGED <<sources, disk, skills, untouched, changes, imports>>

(* Not a skill's extension, or os.path.isfile says no.                     *)
SkipFile ==
  /\ AtFile /\ ~importing.opening
  /\ ThisFile \notin SkillFiles \/ Found \in {Missing, Subdirectory}
  /\ importing' = NextFile
  /\ UNCHANGED <<sources, disk, skills, untouched, changes, imports>>

IsFile ==
  /\ AtFile /\ ~importing.opening
  /\ ThisFile \in SkillFiles /\ Found \notin {Missing, Subdirectory}
  /\ importing' = [importing EXCEPT !.opening = TRUE]
  /\ UNCHANGED <<sources, disk, skills, untouched, changes, imports>>

(* open() and read(): the file may have gone, or changed, since isfile.    *)
ReadFile ==
  /\ AtFile /\ importing.opening
  /\ Found \in Contents
  /\ skills' = Catalogued(importing.source, StemOf[ThisFile], importing.path, ThisFile, Found)
  /\ importing' = NextFile
  /\ UNCHANGED <<sources, disk, untouched, changes, imports>>

OpenFails ==
  /\ AtFile /\ importing.opening
  /\ Found \notin Contents
  /\ importing' = NotImporting
  /\ UNCHANGED <<sources, disk, skills, untouched, changes, imports>>

(* The list of what was imported is complete, and then returned.           *)
ImportComplete ==
  /\ ~Idling /\ ~importing.done /\ importing.todo = {}
  /\ importing' = [importing EXCEPT !.done = TRUE]
  /\ UNCHANGED <<sources, disk, skills, untouched, changes, imports>>

ImportReturns ==
  /\ ~Idling /\ importing.done
  /\ importing' = NotImporting
  /\ UNCHANGED <<sources, disk, skills, untouched, changes, imports>>

RegistryNext ==
  \/ \E name \in SourceNames, source \in Registrable : RegisterSource(name, source)
  \/ \E d \in Directories, f \in Files, there \in OnDisk : ChangeDisk(d, f, there)
  \/ \E name \in SourceNames : BeginImport(name)
  \/ \E name \in SourceNames : ImportGit(name)
  \/ SkipFile
  \/ IsFile
  \/ ReadFile
  \/ OpenFails
  \/ ImportComplete
  \/ ImportReturns

RegistrySpec == RegistryInit /\ [][RegistryNext]_registryVars

-----------------------------------------------------------------------------
(* When an import is complete, every skill file that stood there unchanged *)
(* while it ran is catalogued with its content, or a file of the same stem *)
(* that sorts after it is; no file it could not read kept it from others.  *)
CompleteImportCovers ==
  ~Idling /\ importing.done =>
    \A i \in DOMAIN FileOrder :
      LET f == FileOrder[i]
          k == Key(importing.source, StemOf[f])
      IN  f \in SkillFiles \cap untouched /\ disk[importing.path][f] \in Contents =>
            /\ k \in DOMAIN skills
            /\ skills[k].path = importing.path
            /\ \E j \in i..Len(FileOrder) :
                 skills[k].file = FileOrder[j] /\ StemOf[FileOrder[j]] = StemOf[f]
            /\ skills[k].file = f => skills[k].content = disk[importing.path][f]

(* get_skill finds a skill of that source and that name, unless the name   *)
(* of the skill asked for, or of the one found, has a ":" in it: what the  *)
(* name of a source is does not matter.                                    *)
LookupFindsOwn ==
  \A s \in SourceNames, f \in Files :
    LET k == Key(s, StemOf[f])
    IN  k \in DOMAIN skills =>
          \/ skills[k].source = s /\ skills[k].name = StemOf[f]
          \/ Len(StemOf[f]) > 1 \/ Len(skills[k].name) > 1

(* The catalogue holds what an import promised, under names that find it.  *)
CatalogueFaithful == CompleteImportCovers /\ LookupFindsOwn
=============================================================================
