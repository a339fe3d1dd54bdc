------------------------------- MODULE BuildIso -------------------------------
(***************************************************************************)
(* infra/macmini/build_iso.py: runs that make an installer image from a    *)
(* stock ISO by way of files in one output directory.  A run may fail, or  *)
(* be interrupted, after every step; the next one finds what it left.      *)
(***************************************************************************)
EXTENDS Integers, SequencesExt

CONSTANTS
  Isos,      \* the stock ISOs
  Stock,     \* what each holds: [grub |-> lines, sums |-> content by path]
  Live,      \* those of them with live-server in their name
  InOutDir,  \* those that lie in the output directory
  Secrets,   \* a password hash with the SSH keys
  Good,      \* those of them that render accepts
  Cut,       \* a file whose writing was cut short
  None,      \* no file
  MaxRuns    \* bound on the runs

Names == {"autoinstall.yaml", "grub.cfg.stock", "md5sum.txt.stock", "grub.cfg", "md5sum.txt"}

VARIABLES
  there,   \* the stock ISOs that exist
  dir,     \* the files of the output directory
  image,   \* for each ISO, the image made from it
  pc,      \* what the run did last
  iso, secret,  \* what it was given
  grub,    \* the patched grub.cfg it holds in memory
  runs

vars == <<there, dir, image, pc, iso, secret, grub, runs>>
given == <<iso, secret, runs>>

-----------------------------------------------------------------------------
(* A line of grub.cfg: [kernel, auto, dashes, timeout].                    *)
Lines ==
  [kernel : BOOLEAN, auto : {"no", "before", "end"}, dashes : BOOLEAN, timeout : {"no", "30", "5"}]

PatchLine(line) ==
  [line EXCEPT !.auto = IF ~line.kernel \/ @ # "no" THEN @
                        ELSE IF line.dashes THEN "before" ELSE "end",
               !.timeout = IF @ = "no" THEN @ ELSE "5"]

Patchable(lines) == \E n \in DOMAIN lines : lines[n].kernel
PatchGrub(lines) == [n \in DOMAIN lines |-> PatchLine(lines[n])]

(* update_md5sums: the sum of a content stands for the content. *)
UpdateSums(sums, path, data) == [sums EXCEPT ![path] = data]

-----------------------------------------------------------------------------
Stopped == pc \in {"idle", "done", "failed"}

Init ==
  /\ there = Isos
  /\ dir = [n \in Names |-> None]
  /\ image = [i \in Isos |-> None]
  /\ pc = "idle" /\ iso \in Isos /\ secret \in Secrets /\ grub = None /\ runs = 0

(* main, up to render, which refuses before anything is written. *)
Begin(i, s) ==
  /\ Stopped /\ runs < MaxRuns /\ runs' = runs + 1
  /\ iso' = i /\ secret' = s /\ grub' = None
  /\ pc' = IF s \in Good THEN "rendered" ELSE "failed"
  /\ UNCHANGED <<there, dir, image>>

WriteAutoinstall ==
  /\ pc = "rendered" /\ pc' = "written"
  /\ dir' = [dir EXCEPT !["autoinstall.yaml"] = secret]
  /\ UNCHANGED <<there, image, grub, given>>

UnlinkStock ==
  /\ pc = "written" /\ pc' = "cleared"
  /\ dir' = [dir EXCEPT !["grub.cfg.stock"] = None, !["md5sum.txt.stock"] = None]
  /\ UNCHANGED <<there, image, grub, given>>

Extract ==
  /\ pc = "cleared" /\ iso \in there /\ pc' = "extracted"
  /\ dir' = [dir EXCEPT !["grub.cfg.stock"] = Stock[iso].grub,
                        !["md5sum.txt.stock"] = Stock[iso].sums]
  /\ UNCHANGED <<there, image, grub, given>>

Patch ==
  /\ pc = "extracted" /\ Patchable(dir["grub.cfg.stock"])
  /\ pc' = "patched"
  /\ grub' = PatchGrub(dir["grub.cfg.stock"])
  /\ dir' = [dir EXCEPT !["grub.cfg"] = grub']
  /\ UNCHANGED <<there, image, given>>

(* Fault: the sum is that of the stock file. *)
SumStock ==
  /\ pc = "patched" /\ "grub" \in DOMAIN dir["md5sum.txt.stock"]
  /\ pc' = "summed"
  /\ dir' = [dir EXCEPT !["md5sum.txt"] = dir["md5sum.txt.stock"]]
  /\ UNCHANGED <<there, image, grub, given>>

(* Without a line for grub.cfg there is an exception. *)
Sum ==
  /\ pc = "patched" /\ "grub" \in DOMAIN dir["md5sum.txt.stock"]
  /\ pc' = "summed"
  /\ dir' = [dir EXCEPT !["md5sum.txt"] = UpdateSums(dir["md5sum.txt.stock"], "grub", grub)]
  /\ UNCHANGED <<there, image, grub, given>>

(* The name of the image differs from that of the ISO by live-server; an   *)
(* ISO without it that lies in the output directory goes itself.           *)
UnlinkImage ==
  /\ pc = "summed" /\ pc' = "unlinked"
  /\ image' = [image EXCEPT ![iso] = None]
  /\ there' = there \ ((InOutDir \ Live) \cap {iso})
  /\ UNCHANGED <<dir, grub, given>>

(* xorriso copies the ISO and maps the three files into it. *)
Xorriso ==
  /\ pc = "unlinked" /\ iso \in there /\ pc' = "done"
  /\ image' = [image EXCEPT ![iso] =
       [base |-> iso, autoinstall |-> dir["autoinstall.yaml"], grub |-> dir["grub.cfg"],
        sums |-> dir["md5sum.txt"]]]
  /\ UNCHANGED <<there, dir, grub, given>>

(* The file a step was to write, should it be interrupted. *)
Target ==
  CASE pc = "rendered" -> {"autoinstall.yaml"}
    [] pc = "cleared" -> {"grub.cfg.stock", "md5sum.txt.stock"}
    [] pc = "extracted" -> {"grub.cfg"}
    [] pc = "patched" -> {"md5sum.txt"}
    [] OTHER -> {}

(* An exception, or an interruption, in any step. *)
Fail ==
  /\ ~Stopped /\ pc' = "failed"
  /\ \E files \in SUBSET Target : dir' = [n \in Names |-> IF n \in files THEN Cut ELSE dir[n]]
  /\ \/ UNCHANGED image
     \/ pc = "unlinked" /\ image' = [image EXCEPT ![iso] = Cut]
  /\ UNCHANGED <<there, grub, given>>

Next ==
  \/ \E i \in Isos, s \in Secrets : Begin(i, s)
  \/ WriteAutoinstall \/ UnlinkStock \/ Extract \/ Patch \/ Sum \/ UnlinkImage \/ Xorriso
  \/ Fail

Spec == Init /\ [][Next]_vars

-----------------------------------------------------------------------------
(* Every kernel line of a finished image starts the installer without a    *)
(* question and keeps what stands behind ---; its check sum is that of the *)
(* file; the rest is that of its ISO.                                      *)
Bootable(m) ==
  /\ Patchable(m.grub) /\ m.sums["grub"] = m.grub
  /\ \A n \in DOMAIN m.grub :
       /\ m.grub[n].kernel => m.grub[n].auto # "no"
       /\ m.grub[n].kernel /\ m.grub[n].dashes /\ Stock[m.base].grub[n].auto = "no" =>
            m.grub[n].auto = "before"
  /\ \A path \in DOMAIN m.sums \ {"grub"} : m.sums[path] = Stock[m.base].sums[path]

(* Whatever runs were interrupted before, with whatever other ISOs, an     *)
(* image that is complete boots, and it holds a password and keys that     *)
(* were accepted (patch_grub, update_md5sums, main).                       *)
ImagesBoot ==
  \A i \in Isos : image[i] \notin {None, Cut} =>
    image[i].base = i /\ Bootable(image[i]) /\ image[i].autoinstall \in Good

(* A run that says it wrote an image left one with what it was given (main).*)
DoneIsNew ==
  pc = "done" => image[iso] \notin {None, Cut} /\ image[iso].autoinstall = secret

(* A stock ISO that is named as --help asks is never removed (main).       *)
StockKept == Live \subseteq there

(* The three together, however many runs were interrupted and where (main). *)
ImagesRight == ImagesBoot /\ DoneIsNew /\ StockKept
=============================================================================
