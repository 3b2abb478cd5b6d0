------------------------------- MODULE MCSetup -------------------------------
(* Setup for TLC: the homes of a new user, of users of Salmon Watch and of     *)
(* users who already have files under the new names.                           *)
EXTENDS Setup, TLC

CONSTANTS tokenA, tokenB

TwoSiblings == {tokenA, tokenB}

Empty == [f \in Files |-> "none"]

\* Salmon Watch as its own setup leaves it.
Salmon ==
    [Empty EXCEPT !["salmonConfig"] = "valid", !["oldAutostart"] = "generated",
                  !["oldLauncher"] = "generated", !["oldIcon"] = "generated",
                  !["oldExecutable"] = "generated", !["formerState"] = "unversioned"]

Disks ==
    {Empty, Salmon,
     [Salmon EXCEPT !["salmonConfig"] = "invalid", !["formerState"] = "versioned"],
     [Salmon EXCEPT !["oldLauncher"] = "own", !["oldAutostart"] = "none",
                    !["formerState"] = "malformed"],
     [Salmon EXCEPT !["config"] = "own", !["autostart"] = "own", !["state"] = "own"],
     [Salmon EXCEPT !["launcher"] = "own", !["icon"] = "own", !["autostart"] = "own"],
     [Empty EXCEPT !["salmonConfig"] = "valid"],
     [Empty EXCEPT !["oldIcon"] = "generated", !["config"] = "own"],
     [Empty EXCEPT !["config"] = "invalid", !["icon"] = "own"]}

AllFiles == [s \in TwoSiblings |-> "file"]
NoFiles == [s \in TwoSiblings |-> "none"]

MCHomes ==
    {[disk |-> d, beside |-> NoFiles, source |-> AllFiles, inPlace |-> FALSE] : d \in Disks}
        \cup {[disk |-> Salmon, beside |-> [NoFiles EXCEPT ![t] = "own"],
               source |-> AllFiles, inPlace |-> TRUE] : t \in TwoSiblings}
        \cup {[disk |-> Salmon, beside |-> NoFiles,
               source |-> [AllFiles EXCEPT ![t] = "symlink"], inPlace |-> TRUE] : t \in TwoSiblings}

\* The homes and the specification tell the siblings apart by nothing but their names.
Symmetry == Permutations(TwoSiblings)
=============================================================================
