-------------------------------- MODULE Infra --------------------------------
(***************************************************************************)
(* The scripts of infra/, in one specification.  They share no state: one  *)
(* of them is run, again and again, while the others are not.              *)
(***************************************************************************)
EXTENDS NetbirdApply

CONSTANTS
  Isos, Stock, Live, InOutDir, Secrets, Good, Cut, None, IsoRuns,  \* of BuildIso
  Models, Keys, Placeholder, Empty, RigRuns                        \* of Rig2Setup

VARIABLES
  there, dir, image, isoPc, iso, secret, grub, isoRuns,
  src, libs, bin, gguf, env, worker, rigPc, model, rebuild, key, fault, cut, told, rigRuns,
  part  \* the script that is run

Installer == INSTANCE BuildIso WITH MaxRuns <- IsoRuns, pc <- isoPc, runs <- isoRuns
Setup == INSTANCE Rig2Setup WITH MaxRuns <- RigRuns, pc <- rigPc, runs <- rigRuns

(* What an image is made of is neither missing nor cut short. *)
Images ==
  [base : Isos, autoinstall : Good, grub : {Installer!PatchGrub(Stock[i].grub) : i \in Isos},
   sums : {Installer!UpdateSums(Stock[i].sums, "grub", Installer!PatchGrub(Stock[i].grub)) :
             i \in Isos}]

ASSUME IsoAssumption ==
  /\ Live \subseteq Isos
  /\ {None, Cut} \cap (Images \cup Good) = {}
  /\ \A i \in Isos :
       /\ Stock[i].grub \in [DOMAIN Stock[i].grub -> Installer!Lines]
       /\ Stock[i].sums = [path \in DOMAIN Stock[i].sums |-> Stock[i].sums[path]]

(* A key is not a placeholder, and an environment that was written is not  *)
(* an empty one.                                                           *)
ASSUME RigAssumption ==
  /\ None \notin Models /\ {None, Placeholder} \cap Keys = {}
  /\ {None, Empty} \cap [model : Models, key : Keys \cup {Placeholder}] = {}
  /\ Models # {} /\ IsoRuns \in Nat /\ RigRuns \in Nat

images == <<there, dir, image, isoPc, iso, secret, grub, isoRuns>>
host ==
  <<src, libs, bin, gguf, env, worker, rigPc, model, rebuild, key, fault, cut, told, rigRuns>>
all == <<vars, images, host, part>>

NoImages ==
  /\ iso = CHOOSE i \in Isos : TRUE
  /\ secret = CHOOSE s \in Secrets : TRUE
  /\ Installer!Init
NoHost == env = None /\ (model = CHOOSE m \in Models : TRUE) /\ Setup!Init

InfraInit ==
  \/ part = "apply.py" /\ Init /\ NoImages /\ NoHost
  \/ part = "build_iso.py" /\ Init /\ Installer!Init /\ NoHost
  \/ part = "setup.sh" /\ Init /\ NoImages /\ Setup!Init

InfraNext ==
  \/ part = "apply.py" /\ Next /\ UNCHANGED <<images, host, part>>
  \/ part = "build_iso.py" /\ Installer!Next /\ UNCHANGED <<vars, host, part>>
  \/ part = "setup.sh" /\ Setup!Next /\ UNCHANGED <<vars, images, part>>

InfraSpec == InfraInit /\ [][InfraNext]_all

(* What a finished image holds, and what is never deleted (build_iso.py).  *)
ImagesRight == Installer!ImagesRight

(* What a run of setup.sh leaves, and from where it recovers. *)
SetupRight == Setup!SetupRight

(* The key changes only if a run was cut while it wrote the file, in       *)
(* setup.sh.                                                               *)
KeyKeptUnlessCut == Setup!KeyKeptUnlessCut

(* What setup.sh says of itself, and what TLC refutes. *)
KeyKept == Setup!KeyKept
RerunRecovers == Setup!RerunRecovers
DoneServesModel == Setup!DoneServesModel
=============================================================================
