------------------------- MODULE InstallerProperties -------------------------
(***************************************************************************)
(* What the installer promises to the user whose files it changes.         *)
(***************************************************************************)
EXTENDS Installer

InRecovery(p, Matches(_)) ==
    \E c \in disk["recovery"][p] : Matches(c)

(* What the user put into path p is there, or in recovery/.                *)
BridgeKept ==
    LET b == disk["bridge"]
        m == mine["bridge"]
        Same(c) == c \notin {None, Unsafe} /\ c.block = m.block
    IN  IF m = None THEN TRUE
        ELSE IF m = Unsafe THEN b = Unsafe
        ELSE /\ IF b = None THEN m.text = Blank ELSE b.text = m.text
             /\ m.block \in {Edited, Broken} => Same(b) \/ InRecovery("bridge", Same)

HooksKept ==
    LET h == disk["hooks"]
        m == mine["hooks"]
    IN  IF m = None THEN TRUE
        ELSE IF m \in {Broken, Unsafe} THEN h = m
        ELSE /\ IF h = None THEN m.other = Blank ELSE h.other = m.other
             /\ \A i \in HookIds :
                    LET Same(c) == c \notin Bad /\ c.ours[i] = m.ours[i]
                    IN  m.ours[i] \in {Edited, Broken} => Same(h) \/ InRecovery("hooks", Same)

OwnedKept(p) ==
    LET Same(c) == c = mine[p]
    IN  mine[p] \in {Edited, Unsafe} => Same(disk[p]) \/ InRecovery(p, Same)

AllKept ==
    /\ BridgeKept /\ HooksKept
    /\ mine["seed"] # None => disk["seed"] = mine["seed"]
    /\ \A p \in Owned : OwnedKept(p)

(* Whatever the user had put into a file before a command planned its      *)
(* change is still in the file or in a recovery copy, at every moment of   *)
(* every sequence of installs, repairs and uninstalls, through failures    *)
(* and kills; only a rollback that itself failed is excepted.              *)
UserContentKept == ~spoiled => AllKept

(* A command that failed and could put back what it had copied leaves      *)
(* every file as it found it when it made its plan.                        *)
FailureRestores ==
    [][pc = "rollback" /\ pc' = "idle" /\ last' = "failed" /\ alone /\ ~spoiled
            => disk' = found]_vars

(* An install or repair that ends well leaves an installation in which     *)
(* audit finds no issue but, in the status, an outdated broker digest (see *)
(* below) or, where the status also had a wrong mode, no provider.         *)
(* Uninstall accepts it, unless the line breaks around the managed block   *)
(* were edited away (nothing checks those before uninstall, and no command *)
(* puts them back) or a directory is in the way in the host state.         *)
FramingDrift == disk["manifest"].framed /\ disk["bridge"].frame = 0
CommitIsSound ==
    [][pc = "apply" /\ pc' = "idle" /\ last' = "ok" /\ cmd # "uninstall" /\ alone =>
        /\ AuditIssues' \subseteq {"status"}
        /\ "status" \in AuditIssues' =>
              \/ disk'["status"].broker \in Releases \ {release}
              \/ ~found["status"].bound /\ ~found["status"].private
        /\ IsRefused(UninstallPlan') => \/ FramingDrift'
                                        \/ Unsafe \in {found["sidecar"], found["evidence"]}]_vars

(* Uninstall leaves of the installer only what repair copied to recovery/  *)
(* and the seeded files, which are the user's: every file of its own, the  *)
(* host state, the registered Evidence and the manifest are gone, and so   *)
(* are an instruction or hook file it created and nobody added to.  The    *)
(* user's entries in the hook file stay (the file is written anew, so not  *)
(* with its layout), and so does the text of the instruction file, which   *)
(* has its bytes back as long as no command was killed, no manifest lost   *)
(* and every rollback complete.                                            *)
UninstallIsExact ==
    [][pc = "apply" /\ pc' = "idle" /\ last' = "ok" /\ cmd = "uninstall" /\ alone =>
        LET manifest == found["manifest"]
            text == found["bridge"].text
            other == found["hooks"].other
        IN  /\ \A p \in Owned \cup StatePaths \cup {"manifest"} : disk'[p] = None
            /\ disk'["seed"] = found["seed"] /\ disk'["recovery"] = found["recovery"]
            /\ disk'["hooks"] = IF manifest.hooksCreated /\ other = Blank THEN None
                                ELSE [other |-> other, ours |-> [i \in HookIds |-> None]]
            /\ disk'["bridge"] = None => manifest.created /\ text = Blank
            /\ disk'["bridge"] # None => /\ disk'["bridge"].block = None
                                         /\ disk'["bridge"].text = text
            /\ ~lost /\ ~spoiled =>
                  disk'["bridge"] = IF manifest.created /\ text = Blank THEN None
                                    ELSE [text |-> text, block |-> None, frame |-> 0]]_vars

(* A command during which nothing else happens does not touch a running    *)
(* Task: gate state and sidecars end as they began, whether it succeeds,   *)
(* fails or finds the provider untrusted; only uninstall removes them.     *)
TaskSurvives ==
    [][/\ pc # "idle" /\ pc' = "idle" /\ last' # "killed" /\ alone /\ ~spoiled'
       /\ cmd # "uninstall" /\ found["state"] \notin Bad
       => /\ disk'["state"].turn = found["state"].turn
          /\ disk'["state"].lease = found["state"].lease
          /\ disk'["sidecar"] = found["sidecar"]]_vars

-----------------------------------------------------------------------------
(* Statements of the repository that the runs refute.                      *)

(* test_setup_harness.py asserts of an install and a repair that the audit *)
(* which ends them does not fail; so should the one of a new release.      *)
UpgradeIsAccepted ==
    [][pc = "apply" /\ pc' = "idle" /\ last' = "ok" /\ cmd # "uninstall" /\ alone
            => AuditIssues' = {}]_vars

(* The hook tells the agent on every user turn that "the prior Write Lease   *)
(* was revoked before this user turn"; until the agent is granted another   *)
(* one there is none.                                                      *)
RevokedStaysRevoked == revoked /\ disk["state"] \notin Bad => ~disk["state"].lease
=============================================================================
