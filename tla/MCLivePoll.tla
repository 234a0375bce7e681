----------------------------- MODULE MCLivePoll -----------------------------
\* The instance of LivePoll for model checking: eleven registers on addresses
\* -1 .. 6 of which 0 .. 5 exist.
EXTENDS LivePoll

R(id, mb, wide, type, tu) == [id |-> id, mb |-> mb, wide |-> wide, type |-> type, tu |-> tu]

MCRegs == {
  R(1, 0, FALSE, "TIT", FALSE),
  R(2, 1, TRUE, "TIT", FALSE),
  R(3, 3, FALSE, "TIT", FALSE),
  R(4, 1, FALSE, "REG", FALSE),
  R(5, 1, FALSE, "REG", FALSE),
  R(6, 2, TRUE, "REG", FALSE),
  R(7, 5, TRUE, "TIT", FALSE),
  R(8, 6, FALSE, "REG", FALSE),
  R(9, 2, FALSE, "other", TRUE),
  R(10, 4, FALSE, "REG", FALSE),
  R(11, -1, FALSE, "TIT", FALSE) }

=============================================================================
