-------------------------------- MODULE MCGadget --------------------------------
(* The gadget with every text of at most MaxText characters. *)
EXTENDS Gadget

CONSTANT MaxText

ShortText == Len(text) <= MaxText

MCSizes == 0..(PRINTF_MAX_POSSIBLE_BUFFER_SIZE + 2)
MCCells == 0..(PRINTF_MAX_POSSIBLE_BUFFER_SIZE + 2)

=============================================================================
