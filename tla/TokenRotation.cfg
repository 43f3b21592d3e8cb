SPECIFICATION Spec
CONSTANTS
    Names = {api_west, api_east}
    Tokens = {token1, token2}
INVARIANT ZeroDowntime
