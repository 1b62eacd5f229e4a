------------------------------ MODULE KissLine ------------------------------
(***************************************************************************)
(* The link of the KISS modem, as a part that stands beside other radios.  *)
(***************************************************************************)
EXTENDS Naturals

CONSTANTS Slots, Workers, Openers, Closers, Health, None, MaxFaults

VARIABLES
  kpc, stage, conn, opened, handle, rxThread, reconnectThread, connLock, cmdLock, writeLock,
  stop, gate, connected, degraded, faults, missed, outlived

Line == INSTANCE KissLink WITH pc <- kpc

ASSUME LineGiven == Line!LinkAssumption

-----------------------------------------------------------------------------
(* KissLink: one thread reads the line.                                    *)
OneReader == Line!OneReader

(* KissLink: a degraded link comes back, unless the report met a reconnect *)
(* worker on its way out.                                                  *)
RecoversUnlessMissed == Line!RecoversUnlessMissed

(* KissLink: a connected link without an RX worker is found out.           *)
DeafnessNoticed == Line!DeafnessNoticed
=============================================================================
