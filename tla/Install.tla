------------------------------- MODULE Install -------------------------------
(***************************************************************************)
(* `porthole install` and `porthole uninstall`: copying the app bundle the *)
(* command runs from into an Applications folder and linking the command   *)
(* line tool into ~/.local/bin.  Each step on the file system may fail,    *)
(* and the command may be killed between two of them.                      *)
(***************************************************************************)
EXTENDS Integers

CONSTANTS MaxCommands  \* bound: how many commands are run

ASSUME InstallAssumption == MaxCommands \in Nat

VARIABLES
  disk,    \* the bundles, by place, and the link
  cmd,     \* the command that runs
  before   \* history: the disk when the command began

installVars == <<disk, cmd, before>>

\* Where a bundle can be: a build tree, /Applications and ~/Applications.
Places == {"build", "system", "user"}
InstallPrefixes == {"system", "user"}

\* The link's target, by the bundle it leads into.
NoCommand == [pc |-> "idle", what |-> "none", prefix |-> "user", src |-> "build", force |-> FALSE,
              skipLink |-> FALSE, keep |-> FALSE, result |-> "none", count |-> 0,
              harmed |-> FALSE]

\* A command ends; one that fails or is killed may leave things half done.
Finished(result) == [cmd EXCEPT !.pc = "idle", !.result = result,
                                !.harmed = @ \/ result \in {"failed", "killed"}]

(***************************************************************************)
(* Installing.                                                             *)
(***************************************************************************)
\* locate_running_bundle: the command runs from a bundle, or refuses.
BeginInstall(prefix, src, force, skipLink) ==
  /\ cmd.pc = "idle" /\ cmd.count < MaxCommands
  /\ disk.bundle[src] = "whole"
  /\ cmd' = [NoCommand EXCEPT !.pc = "guard", !.what = "install", !.prefix = prefix, !.src = src,
                              !.force = force, !.skipLink = skipLink, !.count = cmd.count + 1, !.harmed = cmd.harmed]
  /\ before' = disk
  /\ UNCHANGED disk

\* Mutant of Guard: nothing keeps a bundle from being installed over itself.
GuardNothing ==
  /\ cmd.pc = "guard"
  /\ cmd' = [cmd EXCEPT !.pc = "probe"]
  /\ UNCHANGED <<disk, before>>

\* The bundle is not installed over itself.
Guard ==
  /\ cmd.pc = "guard"
  /\ cmd' = IF cmd.src = cmd.prefix THEN Finished("refused") ELSE [cmd EXCEPT !.pc = "probe"]
  /\ UNCHANGED <<disk, before>>

\* Mutant of Probe: the folder is tried by removing what is there.
ProbeByRemoving ==
  /\ cmd.pc = "probe"
  /\ \/ cmd' = [cmd EXCEPT !.pc = "exists"] /\ UNCHANGED disk
     \/ cmd' = Finished("refused") /\ disk' = [disk EXCEPT !.bundle[cmd.prefix] = "none"]
  /\ UNCHANGED before

\* create_dir_all, and for /Applications a probe file: no permission ends it here.
Probe ==
  /\ cmd.pc = "probe"
  /\ (cmd' = [cmd EXCEPT !.pc = "exists"] \/ cmd' = Finished("refused"))
  /\ UNCHANGED <<disk, before>>

CheckExists ==
  /\ cmd.pc = "exists"
  /\ cmd' = IF disk.bundle[cmd.prefix] = "none" THEN [cmd EXCEPT !.pc = "copy"]
            ELSE IF cmd.force THEN [cmd EXCEPT !.pc = "remove"] ELSE Finished("refused")
  /\ UNCHANGED <<disk, before>>

\* remove_path: all of the old bundle goes, or a part of it and then an error.
RemoveOld ==
  /\ cmd.pc = "remove"
  /\ \/ disk' = [disk EXCEPT !.bundle[cmd.prefix] = "none"] /\ cmd' = [cmd EXCEPT !.pc = "copy"]
     \/ disk' = [disk EXCEPT !.bundle[cmd.prefix] = "part"] /\ cmd' = Finished("failed")
  /\ UNCHANGED before

\* copy_dir_recursive reads the source as it is now.
Copy ==
  /\ cmd.pc = "copy"
  /\ \/ /\ disk.bundle[cmd.src] = "whole"
        /\ disk' = [disk EXCEPT !.bundle[cmd.prefix] = "whole"]
        /\ cmd' = IF cmd.skipLink THEN Finished("ok") ELSE [cmd EXCEPT !.pc = "unlink"]
     \/ disk' = [disk EXCEPT !.bundle[cmd.prefix] = "part"] /\ cmd' = Finished("failed")
  /\ UNCHANGED before

\* The link, whatever it led to, is removed and made again.
Unlink ==
  /\ cmd.pc = "unlink"
  /\ \/ disk' = [disk EXCEPT !.link = "none"] /\ cmd' = [cmd EXCEPT !.pc = "link"]
     \/ cmd' = Finished("failed") /\ UNCHANGED disk
  /\ UNCHANGED before

Link ==
  /\ cmd.pc = "link"
  /\ \/ disk' = [disk EXCEPT !.link = cmd.prefix] /\ cmd' = Finished("ok")
     \/ cmd' = Finished("failed") /\ UNCHANGED disk
  /\ UNCHANGED before

(***************************************************************************)
(* Uninstalling.                                                           *)
(***************************************************************************)
BeginUninstall(prefix, keep) ==
  /\ cmd.pc = "idle" /\ cmd.count < MaxCommands
  /\ cmd' = [NoCommand EXCEPT !.pc = "dropLink", !.what = "uninstall", !.prefix = prefix,
                              !.keep = keep, !.count = cmd.count + 1, !.harmed = cmd.harmed]
  /\ before' = disk
  /\ UNCHANGED disk

\* Mutant of DropLink: the bundle goes, and the link is forgotten.
DropBundleOnly ==
  /\ cmd.pc = "dropLink"
  /\ \/ disk' = [disk EXCEPT !.bundle[cmd.prefix] = IF cmd.keep THEN @ ELSE "none"] /\ cmd' = [cmd EXCEPT !.pc = "dropBundle"]
     \/ cmd' = Finished("failed") /\ UNCHANGED disk
  /\ UNCHANGED before

\* The link goes first, whichever bundle it leads to.
DropLink ==
  /\ cmd.pc = "dropLink"
  /\ \/ /\ disk' = [disk EXCEPT !.link = "none"]
        /\ cmd' = IF cmd.keep THEN Finished("ok") ELSE [cmd EXCEPT !.pc = "dropBundle"]
     \/ cmd' = Finished("failed") /\ UNCHANGED disk
  /\ UNCHANGED before

DropBundle ==
  /\ cmd.pc = "dropBundle"
  /\ \/ disk' = [disk EXCEPT !.bundle[cmd.prefix] = "none"] /\ cmd' = Finished("ok")
     \/ disk' = [disk EXCEPT !.bundle[cmd.prefix] = "part"] /\ cmd' = Finished("failed")
  /\ UNCHANGED before

\* The command is killed; what it did stays.
Killed ==
  /\ cmd.pc # "idle"
  /\ cmd' = Finished("killed")
  /\ UNCHANGED <<disk, before>>
-----------------------------------------------------------------------------
InstallInit ==
  /\ disk = [bundle |-> [p \in Places |-> IF p = "build" THEN "whole" ELSE "none"], link |-> "none"]
  /\ cmd = NoCommand
  /\ before = disk

InstallNext ==
  \/ \E prefix \in InstallPrefixes, src \in Places, force, skipLink \in BOOLEAN : BeginInstall(prefix, src, force, skipLink)
  \/ \E prefix \in InstallPrefixes, keep \in BOOLEAN : BeginUninstall(prefix, keep)
  \/ Guard \/ Probe \/ CheckExists \/ RemoveOld \/ Copy \/ Unlink \/ Link \/ DropLink \/ DropBundle \/ Killed
-----------------------------------------------------------------------------
\* The disk and the command have their shape.
InstallTypeOK ==
  /\ disk.bundle \in [Places -> {"none", "part", "whole"}] /\ disk.link \in {"none"} \cup Places
  /\ cmd.pc \in {"idle", "guard", "probe", "exists", "remove", "copy", "unlink", "link", "dropLink", "dropBundle"}
  /\ cmd.result \in {"none", "ok", "refused", "failed", "killed"}

\* An install never destroys the bundle it copies from, at whatever step it stops.
SourceSurvives == cmd.what = "install" => disk.bundle[cmd.src] = "whole"

\* An install that is refused, for a destination that exists, is itself or cannot be written,
\* has touched nothing.
RefusalTouchesNothing == cmd.result = "refused" => disk = before

\* The link leads to a whole bundle as long as every command so far ended by itself and without
\* an error: whichever folders were installed to, removed from or relinked.
LinkWorks ==
  (cmd.pc = "idle" /\ ~cmd.harmed /\ disk.link # "none") => disk.bundle[disk.link] = "whole"
=============================================================================
