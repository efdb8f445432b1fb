-------------------------- MODULE MCBootFirmware --------------------------
(***************************************************************************)
(* Instances of BootFirmware for TLC: the booted rootfs and two others,    *)
(* each with any content of its firmware version file.                     *)
(***************************************************************************)
EXTENDS BootFirmware

CONSTANTS h1, h2, h3

MCHash == {h1, h2, h3}
=============================================================================
