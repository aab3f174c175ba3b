------------------------------ MODULE TxSession ------------------------------
(***************************************************************************)
(* The bookkeeping of a segmented transmission (TxSession and TxState in   *)
(* tx.rs) and the changes start_send, continue_wait_for_fc and             *)
(* continue_send make to it.                                               *)
(*                                                                         *)
(* Deadlines.  The code keeps instants and compares them with `now`; the   *)
(* model keeps what is left of them, in clock ticks, so that `now >=       *)
(* deadline` is timer = 0.  A clock that advances once per Tick            *)
(* microseconds first satisfies the comparison after the time rounded up   *)
(* to whole ticks.                                                         *)
(***************************************************************************)
EXTENDS IsoTpPdu

CONSTANT Tick       \* microseconds per step of the clock

ASSUME TickAssumption == Tick \in Nat \ {0}

Timer(micros) == CeilDiv(micros, Tick)

TxIdle == [state |-> "Idle"]
WaitingForFc(s, timer) == [state |-> "WaitingForFc", session |-> s, timer |-> timer]
Sending(s, timer)      == [state |-> "Sending", session |-> s, timer |-> timer]



(* The session start_send stores once the First Frame is out. `owner` is a *)
(* history field: the payload the First Frame announced.                   *)
NewSession(c, payload) ==
    [payload_len |-> Len(payload), offset |-> max_first_frame_payload(c),
     next_sn |-> 1, block_size |-> c.block_size, block_remaining |-> c.block_size,
     st_min |-> c.st_min, wait_count |-> 0, owner |-> payload]

FirstFrameOf(c, payload) ==
    FirstFrame(Len(payload), SubSeq(payload, 1, max_first_frame_payload(c)))

(* Faulty variants: the block size of the peer, the count down, or the     *)
(* separation time is not taken over.                                      *)
Cleared_own_block(c, s, fc) ==
    [s EXCEPT !.wait_count = 0, !.block_size = c.block_size,
              !.block_remaining = c.block_size,
              !.st_min = st_min_to_duration(fc.st_min, c.st_min)]

Cleared_old_count(c, s, fc) ==
    [s EXCEPT !.wait_count = 0, !.block_size = fc.block_size,
              !.st_min = st_min_to_duration(fc.st_min, c.st_min)]

Cleared_own_pace(c, s, fc) ==
    [s EXCEPT !.wait_count = 0, !.block_size = fc.block_size,
              !.block_remaining = fc.block_size]

(* FlowStatus::ClearToSend: a block size of 0 keeps the sender's own. *)
Cleared(c, s, fc) ==
    LET bs == IF fc.block_size = 0 THEN c.block_size ELSE fc.block_size
    IN  [s EXCEPT !.wait_count = 0, !.block_size = bs, !.block_remaining = bs,
                  !.st_min = st_min_to_duration(fc.st_min, c.st_min)]

(* FlowStatus::Wait; wait_count is a u8. *)
Waited(s) == [s EXCEPT !.wait_count = Lesser(@ + 1, 255)]

(* The bytes the next Consecutive Frame takes from the payload of the      *)
(* call.  Faulty variant: the last byte sent is sent again.                *)
NextChunk_overlaps(c, s, payload) ==
    SubSeq(payload, s.offset,
           Lesser(s.offset + max_consecutive_frame_payload(c), s.payload_len))

NextChunk(c, s, payload) ==
    SubSeq(payload, s.offset + 1,
           Lesser(s.offset + max_consecutive_frame_payload(c), s.payload_len))

NextFrame(c, s, payload) ==
    ConsecutiveFrame(s.next_sn % SnMod, Padded(c, NextChunk(c, s, payload)))

(* The state after that frame went out: done, at the end of a block, or    *)
(* pacing by STmin.                                                        *)
AfterFrame(c, s, payload) ==
    LET sent == [s EXCEPT !.offset = @ + Len(NextChunk(c, s, payload)),
                          !.next_sn = NextSn(@)]
        left == Saturating(s.block_remaining, 1)
    IN  IF sent.offset >= s.payload_len THEN TxIdle
        ELSE IF s.block_size = 0 THEN Sending(sent, Timer(s.st_min))
        ELSE IF left = 0
        THEN WaitingForFc([sent EXCEPT !.block_remaining = s.block_size], Timer(c.n_bs))
        ELSE Sending([sent EXCEPT !.block_remaining = left], Timer(s.st_min))

(* A tick brings every deadline closer. *)
Later(tx) == IF tx.state = "Idle" THEN tx ELSE [tx EXCEPT !.timer = Saturating(@, 1)]
=============================================================================
