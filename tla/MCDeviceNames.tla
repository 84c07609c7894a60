--------------------------- MODULE MCDeviceNames ----------------------------
(* Names of up to three characters, in two encodings.                      *)
EXTENDS DeviceNames

ISO8859 == 5
ErasedBoard == {ErasedCells}
ShortDefault == [encoding |-> CHARACTER_UTF8, chars |-> << 68, 69 >>]
ShortNames ==
  { [encoding |-> CHARACTER_UTF8, chars |-> << 65 >>],
    [encoding |-> CHARACTER_UTF8, chars |-> << 66, 66, 66 >>],
    [encoding |-> ISO8859, chars |-> << 255, 67 >>],
    [encoding |-> CHARACTER_UTF8, chars |-> << 255 >>],      \* not UTF-8
    [encoding |-> 6, chars |-> << 65 >>],                    \* no encoding
    [encoding |-> CHARACTER_UTF8, chars |-> << >> ],         \* empty
    [encoding |-> CHARACTER_UTF8, chars |-> << 65, 65, 65, 65 >>] }  \* long

=============================================================================
