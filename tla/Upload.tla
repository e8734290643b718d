------------------------------- MODULE Upload -------------------------------
(***************************************************************************)
(* okdude, okboot and the serial line between them.                        *)
(***************************************************************************)
EXTENDS OkbootDevice, OkdudeHost

CONSTANTS
  MaxRuns,     \* times the operator starts okdude (a bound of the model)
  MaxFaults    \* frames the line loses or damages, and resets of the board

ASSUME BudgetAssumption == MaxRuns \in Nat /\ MaxFaults \in Nat

VARIABLES runs, faults

vars == <<linkVars, deviceVars, hostVars, runs, faults>>

TypeOK ==
  /\ LinkTypeOK
  /\ DeviceTypeOK
  /\ HostTypeOK
  /\ runs \in 0 .. MaxRuns
  /\ faults \in 0 .. MaxFaults

Init == LinkInit /\ DeviceInit /\ HostInit /\ runs = 0 /\ faults = 0

DeviceTimer == Heartbeat \/ SendGetProgInfo \/ ErrorRecovered

DeviceStep(A) == A /\ UNCHANGED <<hostVars, runs, faults>>

Device == DeviceStep(DeviceReceive \/ DeviceTimer)

Expire == DeviceStep(SessionExpire)

Host == HostStep /\ UNCHANGED <<deviceVars, runs, faults>>

FallBack == HostFallBack /\ UNCHANGED <<deviceVars, runs, faults>>

Operator ==
  \/ /\ runs < MaxRuns
     /\ \E g \in Images : HostStart(g)
     /\ runs' = runs + 1
     /\ UNCHANGED <<deviceVars, faults>>
  \/ HostKill /\ UNCHANGED <<deviceVars, runs, faults>>

(***************************************************************************)
(* What can go wrong on the way: each costs one unit of the fault budget.  *)
(* What a board sent before its reset is kept by a tty that is open only.  *)
(***************************************************************************)
Budget     == faults < MaxFaults /\ faults' = faults + 1 /\ UNCHANGED runs
Loss       == Budget /\ (LoseH2D \/ LoseD2H) /\ UNCHANGED <<deviceVars, hostVars>>
Reset      == Budget /\ PowerCycle /\ (mode = "Idle" => d2h' = << >>) /\ UNCHANGED hostVars
Corruption == Budget /\ (CorruptH2D \/ CorruptD2H) /\ UNCHANGED <<deviceVars, hostVars>>

Next == Device \/ Expire \/ Host \/ FallBack \/ Operator \/ Loss \/ Reset

(* A line that loses frames but whose damage the UART never passes on. *)
Spec == Init /\ [][Next]_vars

(* A line that also damages bytes inside frames. *)
NoisySpec == Init /\ [][Next \/ Corruption]_vars

(***************************************************************************)
(* A host that answers within the session timeout: a session expires only  *)
(* when nothing is on its way.  Requests may still be repeated too early.  *)
(* The loop of `run`, drive and upload_inner spin for ever, hence weak     *)
(* fairness on their steps.  The line loses at most MaxFaults frames, no   *)
(* board is reset and the operator waits.                                  *)
(***************************************************************************)
Quiet == h2d = << >> /\ d2h = << >> /\ out = << >>

TimelyNext ==
  \/ Device
  \/ Quiet /\ Expire
  \/ Host
  \/ mode = "Idle" /\ Operator
  \/ Loss

TimelySpec ==
  /\ Init /\ [][TimelyNext]_vars
  /\ WF_vars(DeviceStep(DeviceReceive))
  /\ WF_vars(DeviceStep(ErrorRecovered))
  /\ WF_vars(DeviceStep(Heartbeat))
  /\ WF_vars(Host)

-----------------------------------------------------------------------------
(* Safety *)

(***************************************************************************)
(* The device enters a program only when the bytes in memory are those of  *)
(* an operator's image, whole and in order, and the ones its metadata      *)
(* stands for (recv_chunk, finalize, recv_booting_ack), whatever the line  *)
(* did.  Where in memory they lie is another matter: see below.            *)
(***************************************************************************)
BootsIntactImage ==
  proto = "Running" =>
    \E g \in Images : g.name = md.name /\ image = Stream(g, "inflated")


(***************************************************************************)
(* While a host uploads to a device that is loading or ready to boot, both *)
(* hold the same metadata and the host knows the chunk size: a device left *)
(* over from a killed host never loads from the next one.                  *)
(***************************************************************************)
SessionAgreement ==
  /\ proto = "V2" /\ state \in {"RequestChunk", "Boot"}
  /\ mode \in {"Upload", "Closing"}
  => md = file /\ chunk_size = 1

(* No ChunkReq makes dispatch_chunk_req slice past the end of the file. *)
HostNeverPanics == mode # "Panicked"

(***************************************************************************)
(* A session that has reached V2 with a host on the other side loads the   *)
(* whole image and asks to boot it, even if one frame is lost on the way   *)
(* (heartbeat's resends, recv_chunk's renewed request).                    *)
(***************************************************************************)
UploadCompletes ==
  proto = "V2" /\ mode = "Upload" ~> mode \in {"Closing", "Echo"}

-----------------------------------------------------------------------------
(* What the device promises: ImageTransfer *)

phase ==
  CASE proto = "Running"                          -> "running"
    [] proto = "V2" /\ state = "Boot"             -> "ready"
    [] proto = "V2" /\ state = "RequestChunk"     -> "loading"
    [] OTHER                                      -> "none"

Transfer == INSTANCE ImageTransfer WITH
  phase <- phase, source <- IF phase = "none" THEN Noise ELSE md, data <- image,
  Nothing <- Noise

(***************************************************************************)
(* However often hosts are killed and restarted, frames are lost and the   *)
(* board is reset, the device transfers one image at a time, piece by      *)
(* piece, and runs it only when it is complete.                            *)
(***************************************************************************)
ImplementsTransfer == Transfer!Spec
=============================================================================
