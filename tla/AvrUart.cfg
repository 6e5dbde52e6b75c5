\* Both builds; rings of two bytes.
SPECIFICATION UartSpec
CONSTANT Cores = {1, 2}
CONSTANT Cap = 2
CONSTANT Controls = {{"RXEN", "TXEN"}, {"RXEN", "TXEN", "RXCIE"}, {"RXEN", "TXEN", "RXCIE", "UDRIE"}}
INVARIANT PolledFlagsHold
INVARIANT ReceiveAsked
INVARIANT TransmitAsked
