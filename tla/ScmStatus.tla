---------------------------- MODULE ScmStatus ----------------------------
(***************************************************************************)
(* The status record a service hands to the Windows Service Control        *)
(* Manager (SERVICE_STATUS) and the way servicelib encodes an exit code    *)
(* into it (ServiceEntry::SetExitCode) and decodes it on the other side    *)
(* (Service::GetStatus).  Shared by the service-process modules and the    *)
(* client modules.                                                         *)
(***************************************************************************)
EXTENDS Naturals

CONSTANT ExitCodes    \* the values services pass to SetExitCode

NO_ERROR == 0
ERROR_SERVICE_SPECIFIC_ERROR == 1066
ERROR_PROCESS_ABORTED == 1067
ERROR_SERVICE_NEVER_STARTED == 1077

ASSUME ExitCodesAssumption == ExitCodes \subseteq Nat

States == {"STOPPED", "START_PENDING", "RUNNING", "STOP_PENDING"}

Win32Codes == {NO_ERROR, ERROR_SERVICE_SPECIFIC_ERROR, ERROR_PROCESS_ABORTED,
               ERROR_SERVICE_NEVER_STARTED}

\* dwWin32ExitCode as SetExitCode derives it from the caller's code.
EncodedWin32(code) ==
  IF code # NO_ERROR THEN ERROR_SERVICE_SPECIFIC_ERROR ELSE NO_ERROR

\* The exit code Service::GetStatus returns.  ERROR_SERVICE_NEVER_STARTED is
\* turned into 0 whichever of the two fields it came from.
Decoded(specific, win32) ==
  LET code == IF win32 = ERROR_SERVICE_SPECIFIC_ERROR THEN specific ELSE win32
  IN  IF code = ERROR_SERVICE_NEVER_STARTED THEN NO_ERROR ELSE code

Seen(s) == Decoded(s.specific, s.win32)

\* What a client can see while the process lives, and at any time.
LiveCodes == ExitCodes \cup {NO_ERROR}
SeenCodes == LiveCodes \cup {ERROR_PROCESS_ABORTED}
=============================================================================
