\* Frames of three bytes, two messages each way, one of a character and one that is
\* cut to fit.
SPECIFICATION FairSpec
CONSTANTS
  FRAME_SIZE = 3
  Longitudes = {1, 3}
  MaxMensajes = 2
INVARIANTS TypeOK SinMezcla ServidorEnFase
PROPERTIES ClienteEnFase RecibirTermina
CHECK_DEADLOCK FALSE
