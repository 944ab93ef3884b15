-------------------------------- MODULE Ft12 --------------------------------
(***************************************************************************)
(* FT12wrap (backend/ft12.cpp), the half that sends.  The other half calls *)
(* the layer above and is in module Serial.                                *)
(*                                                                         *)
(* FDdriver never calls send_Next and nothing starts sendtimer, so that    *)
(* next_free and in_reader do not change and do_send_Next, sendtimer_cb    *)
(* are not called.                                                         *)
(***************************************************************************)
EXTENDS LowLevel

None == [t |-> "none"]

FT12wrap == [ sendflag |-> FALSE, recvflag |-> FALSE, out |-> None, akt |-> <<>>, last |-> None,
              send_wait |-> FALSE, trigger |-> FALSE, timer |-> FALSE ]

\* FT12wrap::start and setup_buffers, before the device is opened: out, akt
\* and last stay as they are.
FT12_start(s) ==
    [s EXCEPT !.ft = [@ EXCEPT !.sendflag = FALSE, !.recvflag = FALSE, !.send_wait = FALSE, !.trigger = FALSE]]

\* FT12wrap::stop_
FT12_stop_(s) == [s EXCEPT !.ft = [@ EXCEPT !.timer = FALSE, !.trigger = FALSE]]

\* mutant: the sequence bit stays as it is
FT12_do_send_Local_SameBit(s, p, raw) ==
    IF s.ft.out # None THEN s
    ELSE [s EXCEPT !.ft = [@ EXCEPT !.out = IF raw THEN p ELSE [t |-> "frame", flag |-> ~s.ft.sendflag, p |-> p],
                                    !.trigger = @ \/ ~s.ft.send_wait]]

\* FT12wrap::do_send_Local: the frame with its sequence bit; a raw one has
\* none.  It is dropped while another one is being sent.
FT12_do_send_Local(s, p, raw) ==
    IF s.ft.out # None THEN s
    ELSE [s EXCEPT !.ft = [@ EXCEPT !.out = IF raw THEN p ELSE [t |-> "frame", flag |-> ~s.ft.sendflag, p |-> p],
                                    !.sendflag = IF raw THEN @ ELSE ~@,
                                    !.trigger = @ \/ ~s.ft.send_wait]]

\* FT12wrap::sendReset
FT12_sendReset(s) == FT12_do_send_Local(s, [t |-> "reset"], TRUE)

\* FT12wrap::trigger_cb
FT12_trigger_cb(s) ==
    LET r == [s EXCEPT !.ft.trigger = FALSE]
    IN IF s.ft.send_wait \/ s.ft.out = None THEN r
       ELSE FDdriver_send_Data([r EXCEPT !.ft = [@ EXCEPT !.send_wait = TRUE, !.timer = TRUE]], s.ft.out)
=============================================================================
