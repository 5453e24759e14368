SPECIFICATION Spec
CONSTANTS
  ARM9 = ARM9
  ARM7 = ARM7
  Word = {w1, w2}
  NoWord = NoWord
  Depth = 2
  CntValue = {{}, {"FIFOENABLE", "SENDIRQEN", "RECVIRQEN"}, {"FIFOENABLE", "SENDCLEAR"}, {"FIFOENABLE", "FIFOERROR"}}
SYMMETRY Symmetry
INVARIANTS RingsTruthful
PROPERTIES NoLostEdge ImplementsChannel
