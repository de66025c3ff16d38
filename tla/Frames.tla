------------------------------- MODULE Frames -------------------------------
(***************************************************************************)
(* The arithmetic of frames and call areas in                              *)
(* src/src/vcode-x86_64/vcode.c.                                           *)
(***************************************************************************)
EXTENDS Integers

SAVED_REG_BYTES == 40
Mkvirt(slot) == -(SAVED_REG_BYTES + 8 * slot)
Slots(size) == IF size = 0 THEN 1 ELSE (size + 7) \div 8

\* The immediate of the stack adjustment, which v_end patches into the prologue.
frame_bytes(slots) == ((8 * slots + 23) \div 16) * 16 - 8

AlignUp(n, k) == ((n + k - 1) \div k) * k

\* What ccall_internal adds to the pushed registers and the argument area.
padding(saved, bytes) == (16 - ((8 * saved + bytes) % 16)) % 16
=============================================================================
