-------------------------------- MODULE UsbKeys --------------------------------
(* The characters of a USB keyboard: reports of the keyboard, the comparison with  *)
(* the report before (usb_kb_callback) and the ring of driver/usb_hid.c.           *)
EXTENDS Integers, Sequences, SequencesExt, FiniteSets

CONSTANTS
  Keys,         \* keys with a character
  SLOTS,        \* keys that a report has room for, 6
  RING,         \* USB_KB_BUF_SIZE, 32
  MaxChanges,   \* bound: keys pressed and released
  MaxDropped    \* bound: reports that end in an error

ASSUME KeysAssumption ==
  /\ SLOTS \in Nat \ {0} /\ RING \in Nat \ {0} /\ MaxChanges \in Nat /\ MaxDropped \in Nat

VARIABLES
  held, shift,            \* keys that are down, in the order pressed; Shift
  reports,                \* reports that the keyboard has ready
  usb_kb_prev, usb_kb_first_report,
  usb_kb_buf,             \* the ring
  changes, dropped,
  typed, got,             \* history: characters of the keys pressed; those returned
  full                    \* history: the ring was full when a character came

keyVars == <<held, shift, reports, usb_kb_prev, usb_kb_first_report, usb_kb_buf, changes,
             dropped, typed, got, full>>

--------------------------------------------------------------------------------
(* The keyboard (external): a report for every change, in order; too many keys at   *)
(* once fill all slots with a code that is none.                                    *)

Rollover == "rollover"
Report(h, s) == [shift |-> s, keys |-> IF Len(h) > SLOTS THEN <<Rollover>> ELSE h]

Change(h, s) ==
  /\ changes < MaxChanges /\ changes' = changes + 1
  /\ held' = h /\ shift' = s
  /\ reports' = Append(reports, Report(h, s))
  /\ UNCHANGED <<usb_kb_prev, usb_kb_first_report, usb_kb_buf, dropped, got, full>>

Press(k) ==
  /\ ~ Contains(held, k)
  /\ Change(Append(held, k), shift)
  /\ typed' = IF changes = 0 THEN typed ELSE Append(typed, <<k, shift>>)

Release(k) ==
  /\ \E i \in DOMAIN held : held[i] = k /\ Change(RemoveAt(held, i), shift)
  /\ UNCHANGED typed

Shift == Change(held, ~ shift) /\ UNCHANGED typed

--------------------------------------------------------------------------------
(* The driver. *)

NoChar == <<>>
usb_kb_map(k, s) == IF k \in Keys THEN <<k, s>> ELSE NoChar

\* Mutant of usb_kb_has_key: only the first key of the report is compared.
usb_kb_has_first(r, k) == r.keys # <<>> /\ r.keys[1] = k
usb_kb_has_key(r, k) == Contains(r.keys, k)

usb_kb_push(b, c) ==
  IF Len(b.ring) < RING - 1 THEN [ring |-> Append(b.ring, c), full |-> b.full]
                            ELSE [ring |-> b.ring, full |-> TRUE]

\* The ring after each of the keys of a report: those that are not in the report
\* before have been pressed.
KeyEdges(r) ==
  LET after[i \in 0 .. Len(r.keys)] ==
        IF i = 0 THEN [ring |-> usb_kb_buf, full |-> full]
        ELSE IF usb_kb_has_key(usb_kb_prev, r.keys[i]) \/ usb_kb_map(r.keys[i], r.shift) = NoChar
        THEN after[i - 1]
        ELSE usb_kb_push(after[i - 1], usb_kb_map(r.keys[i], r.shift))
  IN  after

usb_kb_callback(r) ==
  /\ usb_kb_first_report' = FALSE
  /\ IF usb_kb_first_report
     THEN UNCHANGED <<usb_kb_buf, full>>
     ELSE LET b == KeyEdges(r)[Len(r.keys)]
          IN  usb_kb_buf' = b.ring /\ full' = b.full
  /\ usb_kb_prev' = r

\* usb_poll has found the transfer complete: the callback, or in case of an error
\* nothing but a new transfer.
usb_keyboard_poll ==
  /\ reports # <<>>
  /\ reports' = Tail(reports)
  /\ \/ usb_kb_callback(Head(reports)) /\ UNCHANGED dropped
     \/ /\ dropped < MaxDropped /\ dropped' = dropped + 1
        /\ UNCHANGED <<usb_kb_prev, usb_kb_first_report, usb_kb_buf, full>>
  /\ UNCHANGED <<held, shift, changes, typed, got>>

usb_keyboard_get_char ==
  /\ usb_kb_buf # <<>>
  /\ usb_kb_buf' = Tail(usb_kb_buf)
  /\ got' = Append(got, Head(usb_kb_buf))
  /\ UNCHANGED <<held, shift, reports, usb_kb_prev, usb_kb_first_report, changes, dropped,
                 typed, full>>

KeysInit ==
  /\ held = <<>> /\ shift = FALSE /\ reports = <<>>
  /\ usb_kb_prev = [shift |-> FALSE, keys |-> <<>>] /\ usb_kb_first_report = TRUE
  /\ usb_kb_buf = <<>>
  /\ changes = 0 /\ dropped = 0 /\ typed = <<>> /\ got = <<>> /\ full = FALSE

KeysStep ==
  \/ \E k \in Keys : Press(k) \/ Release(k)
  \/ Shift \/ usb_keyboard_poll \/ usb_keyboard_get_char

--------------------------------------------------------------------------------
(* Properties. *)

Times(k, s) == Cardinality({i \in DOMAIN s : s[i][1] = k})

\* A key that is pressed gives its character once, although reports name all the
\* keys that are down: with nothing lost the characters are those of the keys
\* pressed, in that order and in the case Shift had then (but for the first report,
\* which is thrown away); if a report is lost, still no key gives more characters
\* than it was pressed.
KeysOnce ==
  LET out == got \o usb_kb_buf
  IN  /\ (dropped = 0 /\ ~ full) => IsPrefix(out, typed) /\ (reports = <<>> => out = typed)
      /\ \A k \in Keys : Times(k, out) <= Times(k, typed)
================================================================================
