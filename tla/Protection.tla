----------------------------- MODULE Protection -----------------------------
(***************************************************************************)
(* Unix modes and AmigaDOS protection.  Each is the set of its bits that   *)
(* are 1: a mode's are named after S_Ixxx, a protection's after FIBF_xxx.  *)
(* Read, write, execute and delete are denied by a 1, the others granted.  *)
(***************************************************************************)
EXTENDS Integers

ModeBits == {"RUSR", "RGRP", "ROTH", "WUSR", "WGRP", "WOTH", "XUSR", "XGRP", "XOTH", "SVTX"}
DeniedUnlessDelete == {"READ", "WRITE", "EXECUTE"}   \* mutant: delete is left out
DeniedByOne == {"READ", "WRITE", "EXECUTE", "DELETE"}
ProtectionBits == DeniedByOne \cup {"SCRIPT", "PURE", "ARCHIVE"}

\* The exclusive or that makes every bit mean a grant, or back.
Flip(bits) == (bits \ DeniedByOne) \cup (DeniedByOne \ bits)

\* use_amiga_flags, set by the program, passes the bits through.
MakeProtection(mode) ==
    LET exec == mode \cap {"XUSR", "XGRP", "XOTH"}
        any(bits) == mode \cap bits # {}
    IN  Flip({b \in ProtectionBits :
                \/ b = "READ" /\ any({"RUSR", "RGRP", "ROTH"})
                \/ b = "WRITE" /\ any({"WUSR", "WGRP"})
                \/ b = "DELETE" /\ any({"WUSR", "WOTH"})
                \/ b = "EXECUTE" /\ ("XGRP" \in exec \/ exec = {"XUSR"})
                \/ b = "SCRIPT" /\ ("XOTH" \in exec \/ exec = {"XUSR"})
                \/ b = "PURE" /\ any({"SVTX"})})

MakeMode(protection) ==
    LET granted == Flip(protection)
    IN  {m \in ModeBits :
            \/ m \in {"RUSR", "RGRP", "ROTH"} /\ "READ" \in granted
            \/ m = "WUSR" /\ {"WRITE", "DELETE"} \subseteq granted
            \/ m = "WGRP" /\ "WRITE" \in granted
            \/ m = "WOTH" /\ "DELETE" \in granted
            \/ m = "XUSR" /\ {"EXECUTE", "SCRIPT"} \cap granted # {}
            \/ m = "XGRP" /\ "EXECUTE" \in granted
            \/ m = "XOTH" /\ "SCRIPT" \in granted
            \/ m = "SVTX" /\ "PURE" \in granted}

\* The mode stat reports: a root directory's protection is not meaningful.
StatMode(protection, isroot) == MakeMode(IF isroot THEN {} ELSE protection)

\* What access grants, and what open lets through, for a wish among R, W, X.
\* open looks at the protection itself.
AccessOk(protection, isroot, wish) ==
    LET mode == StatMode(protection, isroot)
    IN  /\ "R" \in wish => "RUSR" \in mode
        /\ "W" \in wish => "WUSR" \in mode
        /\ "X" \in wish => "XUSR" \in mode

OpenOk(protection, wish) ==
    /\ "R" \in wish => "READ" \notin protection
    /\ "W" \in wish => "WRITE" \notin protection
=============================================================================
