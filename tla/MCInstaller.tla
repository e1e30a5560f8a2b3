---------------------------- MODULE MCInstaller ----------------------------
(***************************************************************************)
(* Installer for TLC: both platforms, two versions of the payload and two  *)
(* web ports, the default one and another.                                 *)
(***************************************************************************)
EXTENDS Installer

CONSTANTS p1, p2

MCPlatforms == {"linux", "windows"}
MCVersions == {1, 2}
MCPorts == {p1, p2}
=============================================================================
