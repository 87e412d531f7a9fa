--------------------------- MODULE MCTextDelivery ---------------------------
(* The settings TextDelivery is checked with: each way to deliver once.    *)
EXTENDS TextDelivery

Pasting(output, ydotool, restoring) ==
    [rule |-> "paste", global |-> FALSE, trackable |-> TRUE, secure |-> FALSE,
     output |-> output, ydotoolEnabled |-> ydotool, restore |-> restoring]

MCSettings ==
    { Pasting("automatic", TRUE, TRUE),                   \* insert, else press
      Pasting("ydotool", TRUE, TRUE),                     \* press the keys
      Pasting("wlcopy", FALSE, FALSE),                    \* copy once more
      [Pasting("ydotool", TRUE, TRUE) EXCEPT !.trackable = FALSE, !.global = TRUE],
      [Pasting("automatic", FALSE, TRUE) EXCEPT !.rule = "insert"],
      [Pasting("automatic", TRUE, TRUE) EXCEPT !.secure = TRUE] }
=============================================================================
