CONSTANTS
    Bye = bye
    Texts = {bye, block}
    MaxLines = 3
SPECIFICATION Spec
INVARIANTS TypeOK BufferExclusion FifoDelivery NoLostWakeup
PROPERTIES EveryLineProcessed ByeEnds ImplementsPipe
