---------------------------- MODULE SlotArchive ----------------------------
(***************************************************************************)
(* The device side of the archives: the simulator im1 (src/im1/src/imm.rs, *)
(* server_async.rs, main.rs).  A slot stands for a device behind a modem   *)
(* number.  It keeps a ring of minute records and shows the index of the   *)
(* newest one in an input register.  Three threads of control share the    *)
(* slots behind their mutexes: the handlers of packets, a ticker, and the  *)
(* window.                                                                 *)
(*                                                                         *)
(* A record is its minute; 0 is a cell never written.                      *)
(***************************************************************************)
EXTENDS Naturals, SequencesExt

CONSTANTS
  Modems,     \* the modem numbers a listener answers for (modem_start..modem_end)
  Base,       \* modem_start: its slot is made at the start and shown in the window
  Records,    \* RING_RECORDS
  MaxMinute,  \* bound of the model on the device's clock
  MaxByHand   \* bound of the model on the steps taken in the window

ASSUME SlotAssumption ==
  Base \in Modems /\ Records \in Nat \ {0, 1} /\ MaxMinute \in Nat \ {0} /\ MaxByHand \in Nat

VARIABLES
  minute,   \* unix_now_secs() / 60
  slots,    \* the shared map of slots by modem number
  byHand    \* history: steps taken in the window
deviceVars == <<minute, slots, byHand>>

\* append_record: the next cell, and the index register with it.
Append1(s, ts) ==
  LET i == (s.cur + 1) % Records
  IN  [s EXCEPT !.ring[i] = ts, !.cur = i, !.shown = i]

\* Mutant: a ticker that was late appends one record for all the minutes.
CatchUpOnce(s, m) == Append1(s, m)

\* The minutes the ticker missed are made up for.
CatchUp(s, m) ==
  LET caught[k \in 0 .. m - s.last] == IF k = 0 THEN s ELSE Append1(caught[k - 1], s.last + k)
  IN  caught[m - s.last]

\* tick_ring_archive
Ticked(s, m) ==
  IF s.last = 0     THEN [Append1(s, m) EXCEPT !.last = m]
  ELSE IF m <= s.last THEN s
  ELSE [CatchUp(s, m) EXCEPT !.last = m]

\* tick_ring_archive_now: the next minute before its time.
TickedNow(s, m) ==
  LET n == IF s.last = 0 THEN m ELSE s.last + 1
  IN  [Append1(s, n) EXCEPT !.last = n]

\* init_ring_archive
NewSlot(m) ==
  Ticked([ring |-> [i \in 0 .. Records - 1 |-> 0], cur |-> Records - 1,
          shown |-> Records - 1, last |-> 0], m)

\* get_or_create_slot
SlotOf(modem) == IF modem \in DOMAIN slots THEN slots[modem] ELSE NewSlot(minute)

\* Mutant: the answer is made from the slot as the ticker left it.
NotTicked(modem) == SlotOf(modem)

\* The slot a packet is answered from: handle_packet ticks it first, under the same lock.
Answering(modem) == Ticked(SlotOf(modem), minute)

WithSlot(modem, s) == [m \in DOMAIN slots \cup {modem} |-> IF m = modem THEN s ELSE slots[m]]

-----------------------------------------------------------------------------
Time ==
  /\ minute < MaxMinute
  /\ minute' = minute + 1
  /\ UNCHANGED <<slots, byHand>>

\* One slot of the round of tick_all_slots, which locks them one after the other.
TickSlot(modem) ==
  /\ modem \in DOMAIN slots
  /\ slots' = WithSlot(modem, Ticked(slots[modem], minute))
  /\ UNCHANGED <<minute, byHand>>

\* handle_packet of a request by another master.
Packet(modem) ==
  /\ modem \in Modems
  /\ slots' = WithSlot(modem, Answering(modem))
  /\ UNCHANGED <<minute, byHand>>

\* "Tick now" and "Apply + Reset Ring" of the window.
TickNow ==
  /\ byHand < MaxByHand
  /\ slots[Base].last < MaxMinute
  /\ slots' = WithSlot(Base, TickedNow(slots[Base], minute))
  /\ byHand' = byHand + 1
  /\ UNCHANGED minute

ResetRing ==
  /\ byHand < MaxByHand
  /\ slots' = WithSlot(Base, NewSlot(minute))
  /\ byHand' = byHand + 1
  /\ UNCHANGED minute

DeviceInit ==
  /\ minute = 1 /\ byHand = 0
  /\ slots = [m \in {Base} |-> NewSlot(1)]

-----------------------------------------------------------------------------
(* Properties *)

SlotType ==
  /\ minute \in 1 .. MaxMinute /\ byHand \in 0 .. MaxByHand
  /\ DOMAIN slots \subseteq Modems
  /\ \A m \in DOMAIN slots :
       /\ slots[m].ring \in [0 .. Records - 1 -> 0 .. MaxMinute]
       /\ slots[m].cur \in 0 .. Records - 1 /\ slots[m].shown \in 0 .. Records - 1
       /\ slots[m].last \in 1 .. MaxMinute

\* The record k cells behind the newest one.
Behind(s, k) == s.ring[(s.cur + Records - k) % Records]

\* Read backwards from the index that the register shows, the ring holds
\* minute after minute without a gap or a repeat, until a cell never written
\* or all cells: however late ticker and packets come and whatever is done in
\* the window (imm.rs 122-141, 192-234).
RingContiguous ==
  \A m \in DOMAIN slots :
    LET s == slots[m] IN
    /\ s.shown = s.cur /\ Behind(s, 0) = s.last
    /\ \A k \in 1 .. Records - 1 :
         Behind(s, k) = IF s.last > k /\ Behind(s, k - 1) # 0 /\ Behind(s, k) # 0
                          THEN s.last - k ELSE 0
=============================================================================
